---- MODULE Spec2Model ----
(***************************************************************************)
(* Phase state machine and gate validation engine of the SDLC toolkit:     *)
(* scripts/orchestrate.py, scripts/gate_validator.py, scripts/init_sdlc.py *)
(***************************************************************************)
EXTENDS Integers, Sequences, FiniteSets, TLC

VARIABLES
    fs,          \* project directory: set of entries [path, kind, text] (state.json excluded)
    disk,        \* .sdlc/state.json: [kind |-> "absent"] or [kind |-> "json", doc |-> ...]
    pc,          \* position of the orchestrator process ("idle" when none runs)
    state,       \* the orchestrator's in-memory state dict
    idx,         \* loop variable of the phase walk (1-based)
    dry_run,     \* --dry-run of the running orchestrator
    start_from,  \* --start-from of the running orchestrator ("" when not given)
    start_idx,   \* index the walk of the running orchestrator began at
    gate_passed, \* local variable gate_passed of main()
    action,      \* local variable action of main() (answer of prompt_choice)
    main_ctx,    \* local variable ctx of main()
    session,     \* what the operator types and how the collaborators end, this run
    gate_out,    \* what the last gate_validator.py or project_health.py process reported
    exit_code,   \* exit code of the last finished process
    visited,     \* phases started (mark_started) by the running orchestrator, in order
    attempts,    \* gate checks made in the current gate loop
    runs,        \* processes finished so far; the wall clock ticks once per process
    jumped       \* some orchestrator invocation so far used --start-from

\* what the orchestrator process fixes before the walk
run_vars == <<dry_run, start_from, start_idx, session>>

vars == <<fs, disk, pc, state, idx, run_vars, gate_passed, action, main_ctx, gate_out,
          exit_code, visited, attempts, runs, jumped>>


-----------------------------------------------------------------------------
(* Bounds of the model *)

MaxRuns == 2
MaxAttempts == 2
\* how many items of one checklist the operator ticks
MaxTicks == 5

-----------------------------------------------------------------------------
(* Phase order *)

PHASE_ORDER ==
    <<"requirements", "development", "cicd", "testing", "uat", "deployment", "monitoring">>

Phases == {PHASE_ORDER[i] : i \in 1..Len(PHASE_ORDER)}

\* list.index, 1-based
PhaseIndex(p) == CHOOSE i \in 1..Len(PHASE_ORDER) : PHASE_ORDER[i] = p

-----------------------------------------------------------------------------
(* Strings: str.lower, the in operator on str, str.split("/"), fnmatch *)

ToLower ==
    [A |-> "a", B |-> "b", C |-> "c", D |-> "d", E |-> "e", F |-> "f", G |-> "g",
     H |-> "h", I |-> "i", J |-> "j", K |-> "k", L |-> "l", M |-> "m", N |-> "n",
     O |-> "o", P |-> "p", Q |-> "q", R |-> "r", S |-> "s", T |-> "t", U |-> "u",
     V |-> "v", W |-> "w", X |-> "x", Y |-> "y", Z |-> "z"]

LowerChar(c) == IF c \in DOMAIN ToLower THEN ToLower[c] ELSE c

RECURSIVE Lower(_)
Lower(s) == IF s = "" THEN "" ELSE LowerChar(Head(s)) \o Lower(Tail(s))

\* needle in haystack
Contains(haystack, needle) ==
    \E i \in 0..(Len(haystack) - Len(needle)) :
        SubSeq(haystack, i + 1, i + Len(needle)) = needle

RECURSIVE SplitAcc(_, _, _)
SplitAcc(s, cur, acc) ==
    IF s = "" THEN Append(acc, cur)
    ELSE IF Head(s) = "/" THEN SplitAcc(Tail(s), "", Append(acc, cur))
    ELSE SplitAcc(Tail(s), cur \o Head(s), acc)

\* the parts of a relative path or of a glob pattern
Parts(s) == SplitAcc(s, "", <<>>)

\* fnmatch.fnmatchcase for patterns whose only wildcard is "*"
RECURSIVE FnMatch(_, _)
FnMatch(pat, name) ==
    IF pat = "" THEN name = ""
    ELSE IF Head(pat) = "*"
         THEN FnMatch(Tail(pat), name) \/ (name # "" /\ FnMatch(pat, Tail(name)))
         ELSE name # "" /\ Head(name) = Head(pat) /\ FnMatch(Tail(pat), Tail(name))

-----------------------------------------------------------------------------
(* The project directory *)

File(p, t) == [path |-> p, kind |-> "file", text |-> t]
Dir(p) == [path |-> p, kind |-> "dir", text |-> ""]

STATE_PATH == ".sdlc/state.json"

\* a project directory as a process sees it: the entries and the state document
ProjectDir(f, d) == [fs |-> f, disk |-> d]

\* every entry below the project directory, state.json included
Entries(pd) ==
    pd.fs \cup (IF pd.disk.kind = "absent" THEN {} ELSE {File(STATE_PATH, "")})

\* Path.exists()
Exists(pd, p) == \E e \in Entries(pd) : e.path = p

\* Path.is_dir()
IsDir(pd, p) == \E e \in Entries(pd) : e.path = p /\ e.kind = "dir"

\* Path.rglob(pattern): the pattern's parts match the last parts of the entry's path
RGlob(pd, pattern) ==
    LET pp == Parts(pattern)
    IN  {e \in Entries(pd) :
            LET ep == Parts(e.path)
            IN  /\ Len(ep) >= Len(pp)
                /\ \A i \in 1..Len(pp) : FnMatch(pp[i], ep[Len(ep) - Len(pp) + i])}

-----------------------------------------------------------------------------
(* gate_validator.py *)

Crit(d, c, a) == [description |-> d, checker |-> c, args |-> a]

GATE_CRITERIA ==
    [requirements |-> <<
        Crit("PRD document exists", "check_file", <<"docs/prd.md">>),
        Crit("User stories defined", "check_file_pattern", <<"docs/user-stories*">>),
        Crit("Acceptance criteria present in PRD", "check_content",
             <<"docs/prd.md", "acceptance criteria">>),
        Crit("Technical feasibility assessed", "check_file_pattern",
             <<"docs/tech-feasibility*">>),
        Crit("Stakeholder sign-off recorded", "check_state_note",
             <<"requirements", "sign-off">>) >>,
     development |-> <<
        Crit("Git repository initialized", "check_dir", <<".git">>),
        Crit("Branching strategy documented", "check_file_pattern", <<"*git*workflow*">>),
        Crit("Pre-commit hooks configured", "check_file", <<".pre-commit-config.yaml">>),
        Crit("README exists", "check_file", <<"README.md">>),
        Crit("Code review process defined", "check_state_note",
             <<"development", "code review">>) >>,
     cicd |-> <<
        Crit("CI pipeline config exists", "check_any_file",
             << <<".github/workflows/*.yml", ".github/workflows/*.yaml",
                  ".gitlab-ci.yml", "Jenkinsfile">> >>),
        Crit("Build step defined", "check_state_note", <<"cicd", "build">>),
        Crit("Test step in pipeline", "check_state_note", <<"cicd", "test">>),
        Crit("Linting configured", "check_any_file",
             << <<".eslintrc*", ".flake8", "pyproject.toml", ".prettierrc*">> >>),
        Crit("Pipeline tested end-to-end", "check_state_note", <<"cicd", "verified">>) >>,
     testing |-> <<
        Crit("Unit tests exist", "check_file_pattern", <<"*test*">>),
        Crit("Test coverage report generated", "check_any_file",
             << <<"coverage/*", "htmlcov/*", ".coverage">> >>),
        Crit("Coverage meets threshold (>80%)", "check_state_note",
             <<"testing", "coverage">>),
        Crit("Critical bugs resolved", "check_state_note", <<"testing", "bugs resolved">>),
        Crit("Test plan documented", "check_file_pattern", <<"docs/test-plan*">>) >>,
     uat |-> <<
        Crit("UAT plan created", "check_file_pattern", <<"docs/uat*">>),
        Crit("UAT environment available", "check_state_note", <<"uat", "environment">>),
        Crit("All UAT cases executed", "check_state_note", <<"uat", "executed">>),
        Crit("Stakeholder sign-off obtained", "check_state_note", <<"uat", "sign-off">>) >>,
     deployment |-> <<
        Crit("Deployment runbook exists", "check_file_pattern", <<"docs/deployment*">>),
        Crit("Rollback procedure documented", "check_file_pattern", <<"docs/rollback*">>),
        Crit("Smoke tests defined", "check_file_pattern", <<"*smoke*">>),
        Crit("Deployment strategy chosen", "check_state_note",
             <<"deployment", "strategy">>),
        Crit("Pre-deployment checklist complete", "check_state_note",
             <<"deployment", "checklist">>) >>,
     monitoring |-> <<
        Crit("Monitoring configured", "check_state_note", <<"monitoring", "configured">>),
        Crit("Alerts defined", "check_file_pattern", <<"*alert*">>),
        Crit("SLOs documented", "check_file_pattern", <<"docs/slo*">>),
        Crit("Incident response plan exists", "check_file_pattern", <<"docs/incident*">>),
        Crit("Dashboard created", "check_state_note", <<"monitoring", "dashboard">>) >>]

\* GATE_CRITERIA.get(phase, [])
Criteria(phase) == IF phase \in DOMAIN GATE_CRITERIA THEN GATE_CRITERIA[phase] ELSE <<>>

check_file(pd, filepath) == Exists(pd, filepath)

check_dir(pd, dirpath) == IsDir(pd, dirpath)

check_file_pattern(pd, pattern) == Cardinality(RGlob(pd, pattern)) > 0

check_any_file(pd, patterns) ==
    \E i \in 1..Len(patterns) : check_file_pattern(pd, patterns[i])

check_content(pd, filepath, keyword) ==
    /\ Exists(pd, filepath)
    /\ \E e \in Entries(pd) :
          e.path = filepath /\ Contains(Lower(e.text), Lower(keyword))

\* state.get("phases", {}).get(phase, {}).get("notes", [])
NotesOf(doc, phase) ==
    IF phase \in DOMAIN doc.phases THEN doc.phases[phase].notes ELSE <<>>

check_state_note_any_phase(pd, phase, keyword) ==
    /\ pd.disk.kind = "json"
    /\ \E q \in DOMAIN pd.disk.doc.phases :
          \E i \in 1..Len(pd.disk.doc.phases[q].notes) :
              Contains(Lower(pd.disk.doc.phases[q].notes[i]), Lower(keyword))

check_state_note(pd, phase, keyword) ==
    /\ pd.disk.kind = "json"
    /\ LET notes == NotesOf(pd.disk.doc, phase)
       IN  \E i \in 1..Len(notes) : Contains(Lower(notes[i]), Lower(keyword))

CHECKERS ==
    {"check_file", "check_dir", "check_file_pattern", "check_any_file",
     "check_content", "check_state_note"}

\* CHECKERS[name](project_dir, args)
RunChecker(name, pd, args) ==
    CASE name = "check_file" -> check_file(pd, args[1])
      [] name = "check_dir" -> check_dir(pd, args[1])
      [] name = "check_file_pattern" -> check_file_pattern(pd, args[1])
      [] name = "check_any_file" -> check_any_file(pd, args[1])
      [] name = "check_content" -> check_content(pd, args[1], args[2])
      [] name = "check_state_note" -> check_state_note(pd, args[1], args[2])

\* the checker leaves by an exception: json.load of an unparseable state document,
\* read_text of a directory
CheckerRaises(name, pd, args) ==
    CASE name = "check_state_note" -> pd.disk.kind = "corrupt"
      [] name = "check_content" -> IsDir(pd, args[1])
      [] OTHER -> FALSE

CriterionPasses(c, pd) == c.checker \in CHECKERS /\ RunChecker(c.checker, pd, c.args)

CriterionRaisesUnknown(c, pd) ==
    c.checker \notin CHECKERS \/ CheckerRaises(c.checker, pd, c.args)

CriterionRaises(c, pd) == c.checker \in CHECKERS /\ CheckerRaises(c.checker, pd, c.args)

Verdict(raised, passed, failed) == [raised |-> raised, passed |-> passed, failed |-> failed]

RECURSIVE ForCriterionPrepend(_, _, _, _)
ForCriterionPrepend(cs, pd, passed, failed) ==
    IF cs = <<>> THEN Verdict(FALSE, passed, failed)
    ELSE IF CriterionRaises(Head(cs), pd) THEN Verdict(TRUE, passed, failed)
    ELSE IF CriterionPasses(Head(cs), pd)
         THEN ForCriterionPrepend(Tail(cs), pd, <<Head(cs).description>> \o passed, failed)
         ELSE ForCriterionPrepend(Tail(cs), pd, passed, <<Head(cs).description>> \o failed)

RECURSIVE ForCriterion(_, _, _, _)
\* for criterion in criteria: append the description to passed or to failed;
\* an exception of a checker ends the loop
ForCriterion(cs, pd, passed, failed) ==
    IF cs = <<>> THEN Verdict(FALSE, passed, failed)
    ELSE IF CriterionRaises(Head(cs), pd) THEN Verdict(TRUE, passed, failed)
    ELSE IF CriterionPasses(Head(cs), pd)
         THEN ForCriterion(Tail(cs), pd, Append(passed, Head(cs).description), failed)
         ELSE ForCriterion(Tail(cs), pd, passed, Append(failed, Head(cs).description))

validate_phase(phase, pd) == ForCriterion(Criteria(phase), pd, <<>>, <<>>)

RECURSIVE AllResults(_, _)
\* all_results, as the sequence of verdicts of the phases addressed, in order
AllResults(phases, pd) ==
    IF phases = <<>> THEN <<>>
    ELSE <<validate_phase(Head(phases), pd)>> \o AllResults(Tail(phases), pd)

OverallPassWrong(results) ==
    \A i \in 1..Len(results) : Len(results[i].passed) >= Len(results[i].failed)

\* overall_pass: no phase addressed has a failing criterion
OverallPass(results) == \A i \in 1..Len(results) : results[i].failed = <<>>

\* a report of a gate_validator.py process: its arguments, phases_to_check,
\* all_results in that order, whether a checker raised, and the exit code
Report(phase, all, phases_to_check, results, raised, code) ==
    [args |-> [phase |-> phase, all |-> all], phases |-> phases_to_check,
     results |-> results, raised |-> raised, exit_code |-> code]

NoGateOut == Report("", FALSE, <<>>, <<>>, FALSE, 0)

Raised(results) == \E i \in 1..Len(results) : results[i].raised

\* sys.exit(0 if overall_pass else 1); an uncaught exception ends the process with 1
GateExitCode(results) == IF Raised(results) THEN 1 ELSE IF OverallPass(results) THEN 0 ELSE 1

GateReport(phase, all, phases_to_check, results) ==
    Report(phase, all, phases_to_check, results, Raised(results), GateExitCode(results))

\* main() of gate_validator.py; phase = "" when --phase is not given
gate_validator_main(phase, all, pd) ==
    IF phase = "" /\ ~all
    THEN \* parser.error("Specify --phase or --all")
         Report(phase, all, <<>>, <<>>, FALSE, 2)
    ELSE GateReport(phase, all, IF all THEN PHASE_ORDER ELSE <<phase>>,
                    AllResults(IF all THEN PHASE_ORDER ELSE <<phase>>, pd))

-----------------------------------------------------------------------------
(* init_sdlc.py *)

\* datetime.now(timezone.utc): the clock ticks once per process
Now == runs + 1

\* None
Null == 0

\* PHASES of init_sdlc.py: the id and the order of each phase
PHASES ==
    <<[id |-> "requirements", order |-> 1], [id |-> "development", order |-> 2],
      [id |-> "cicd", order |-> 3], [id |-> "testing", order |-> 4],
      [id |-> "uat", order |-> 5], [id |-> "deployment", order |-> 6],
      [id |-> "monitoring", order |-> 7]>>

PendingRecord ==
    [status |-> "pending", started_at |-> Null, completed_at |-> Null,
     gate_passed |-> FALSE, notes |-> <<>>]

create_state_started(project_name) ==
    [project_name |-> project_name,
     created_at |-> Now,
     updated_at |-> Now,
     current_phase |-> "requirements",
     phases |-> [p \in Phases |->
                    IF p = "requirements"
                    THEN [PendingRecord EXCEPT !.status = "in_progress"]
                    ELSE PendingRecord]]

create_state(project_name) ==
    [project_name |-> project_name,
     created_at |-> Now,
     updated_at |-> Now,
     current_phase |-> "requirements",
     phases |-> [p \in Phases |-> PendingRecord]]

CHECKLISTS ==
    [requirements |-> <<
        "Define project vision and goals", "Identify stakeholders",
        "Write PRD (Product Requirements Document)",
        "Create user stories with acceptance criteria", "Assess technical feasibility",
        "Define success metrics", "Get stakeholder sign-off">>,
     development |-> <<
        "Set up repository and branching strategy", "Configure development environment",
        "Install pre-commit hooks", "Implement core features",
        "Write inline documentation", "Conduct code reviews",
        "Maintain clean commit history">>,
     cicd |-> <<
        "Set up CI pipeline (build + test)", "Configure linting and formatting checks",
        "Add security scanning (SAST)", "Set up artifact publishing",
        "Configure branch protection rules", "Add deployment pipeline",
        "Test pipeline end-to-end">>,
     testing |-> <<
        "Write unit tests (>80% coverage target)",
        "Write integration tests for critical paths", "Set up E2E test suite",
        "Run regression tests", "Conduct performance/load testing",
        "Fix all critical/high severity bugs", "Generate test coverage report">>,
     uat |-> <<
        "Create UAT test plan from user stories", "Set up UAT environment",
        "Brief stakeholders on testing scope", "Execute UAT test cases",
        "Collect and triage feedback", "Fix blocking issues",
        "Obtain stakeholder sign-off">>,
     deployment |-> <<
        "Create deployment runbook", "Set up feature flags (if applicable)",
        "Configure deployment strategy", "Run pre-deployment smoke tests",
        "Execute deployment", "Run post-deployment smoke tests",
        "Verify rollback procedure works">>,
     monitoring |-> <<
        "Set up application metrics", "Configure log aggregation",
        "Define SLOs and error budgets", "Create alerting rules", "Set up dashboards",
        "Document incident response procedure", "Conduct game day / chaos testing">>]

PHASE_TITLES ==
    [requirements |-> "Requirements & Planning", development |-> "Development & Git",
     cicd |-> "CI/CD Pipeline", testing |-> "QA Testing",
     uat |-> "User Acceptance Testing", deployment |-> "Production Deployment",
     monitoring |-> "Monitoring & SRE"]

Digit(i) == SubSeq("0123456789", i + 1, i + 1)

RECURSIVE ChecklistLines(_)
ChecklistLines(items) ==
    IF items = <<>> THEN "" ELSE "\n- [ ] " \o Head(items) \o ChecklistLines(Tail(items))

create_phase_checklist(phase) ==
    "# Phase " \o Digit(PhaseIndex(phase)) \o ": " \o PHASE_TITLES[phase] \o "\n"
        \o ChecklistLines(CHECKLISTS[phase]) \o "\n"

\* .sdlc/phases/NN-<id>.md
ChecklistPath(phase) == ".sdlc/phases/0" \o Digit(PhaseIndex(phase)) \o "-" \o phase \o ".md"

\* what init_sdlc creates below .sdlc besides state.json
SdlcEntries ==
    {Dir(".sdlc"), Dir(".sdlc/phases")}
        \cup {File(ChecklistPath(p), create_phase_checklist(p)) : p \in Phases}

\* shutil.rmtree(output_dir / ".sdlc")
RmSdlc(f) == {e \in f : Parts(e.path)[1] # ".sdlc"}

SdlcExists(f) == \E e \in f : e.path = ".sdlc"

init_sdlc_keeps(project_name, f, d, force) ==
    IF SdlcExists(f)
    THEN [fs |-> f, disk |-> d, exit_code |-> IF force THEN 0 ELSE 1]
    ELSE [fs |-> f \cup SdlcEntries,
          disk |-> [kind |-> "json", doc |-> create_state(project_name)],
          exit_code |-> 0]

\* init_sdlc(project_name, output_dir, template=None) of init_sdlc.py, after the
\* --force removal of main(): [fs, disk, exit_code]
init_sdlc(project_name, f, d, force) ==
    LET f0 == IF force /\ SdlcExists(f) THEN RmSdlc(f) ELSE f
        d0 == IF force /\ SdlcExists(f) THEN [kind |-> "absent"] ELSE d
    IN  IF SdlcExists(f0)
        THEN [fs |-> f0, disk |-> d0, exit_code |-> 1]
        ELSE [fs |-> f0 \cup SdlcEntries,
              disk |-> [kind |-> "json", doc |-> create_state(project_name)],
              exit_code |-> 0]

-----------------------------------------------------------------------------
(* orchestrate.py: state management and utilities *)

NoState == [kind |-> "none"]
Absent == [kind |-> "absent"]
Json(doc) == [kind |-> "json", doc |-> doc]

\* the state dict after save_state: updated_at is stamped unless dry_run
Stamped(st, dry) == IF dry THEN st ELSE [st EXCEPT !.updated_at = Now]

save_state_always(d, st, dry) == Json(st)

\* the state document after save_state
save_state(d, st, dry) == IF dry THEN d ELSE Json(Stamped(st, dry))

InSeq(x, s) == \E i \in 1..Len(s) : s[i] = x

add_note_always(st, phase, note) ==
    [st EXCEPT !.phases[phase].notes = Append(@, note)]

add_note(st, phase, note) ==
    IF InSeq(note, st.phases[phase].notes) THEN st
    ELSE [st EXCEPT !.phases[phase].notes = Append(@, note)]

mark_started_first(st, phase) ==
    [st EXCEPT !.phases[phase].status = "in_progress",
               !.phases[phase].started_at = Now,
               !.current_phase = "requirements"]

mark_started_unknown(st, phase) ==
    [st EXCEPT !.phases[phase].status = "in_progress",
               !.phases[phase].started_at = Now,
               !.current_phase = "in_progress"]

mark_started(st, phase) ==
    [st EXCEPT !.phases[phase].status = "in_progress",
               !.phases[phase].started_at = Now,
               !.current_phase = phase]

mark_completed_status_only(st, phase) ==
    [st EXCEPT !.phases[phase].status = "completed",
               !.phases[phase].completed_at = Now]

mark_completed_untimed(st, phase) ==
    [st EXCEPT !.phases[phase].status = "completed",
               !.phases[phase].gate_passed = TRUE]

mark_completed(st, phase) ==
    [st EXCEPT !.phases[phase].status = "completed",
               !.phases[phase].completed_at = Now,
               !.phases[phase].gate_passed = TRUE]

\* prompt(question, default): the answer, or the default on Enter
prompt(raw, default) == IF raw = "" THEN default ELSE raw

prompt_yn(raw, default) ==
    LET answer == Lower(prompt(raw, default))
    IN  answer # "" /\ Head(answer) = "y"

\* prompt_choice returns once the answer is one of the choices
ChoiceAccepted(raw, choices, default) == InSeq(prompt(raw, default), choices)

RECURSIVE ParentDirs(_, _, _)
\* the directories above a path of parts ps, from part i on, below prefix
ParentDirs(ps, i, prefix) ==
    IF i >= Len(ps) THEN {}
    ELSE LET p == IF prefix = "" THEN ps[i] ELSE prefix \o "/" \o ps[i]
         IN  {Dir(p)} \cup ParentDirs(ps, i + 1, p)

\* Path.mkdir(parents=True, exist_ok=True)
MkDir(f, path) ==
    LET new == ParentDirs(Parts(path), 1, "") \cup {Dir(path)}
    IN  f \cup {e \in new : ~\E x \in f : x.path = e.path}

\* path.parent.mkdir(parents=True, exist_ok=True); path.write_text(content)
WriteText(f, path, content) ==
    LET dirs == ParentDirs(Parts(path), 1, "")
    IN  {e \in f : e.path # path}
            \cup {e \in dirs : ~\E x \in f : x.path = e.path}
            \cup {File(path, content)}

write_file(f, path, content, dry) == IF dry THEN f ELSE WriteText(f, path, content)

FsExists(f, path) == \E e \in f : e.path = path

\* run_script of a collaborator that writes the file out when it succeeds:
\* nothing runs under dry_run, and a failing run leaves the directory as it was
run_script(f, out, text, ok, dry) ==
    IF dry \/ ~ok THEN f ELSE WriteText(f, out, text)

\* ctx.get(key, default)
Get(ctx, key, default) == IF key \in DOMAIN ctx THEN ctx[key] ELSE default

\* ctx[key] = value
Put(ctx, key, value) == (key :> value) @@ ctx

Result(st, f, ctx) == [state |-> st, fs |-> f, ctx |-> ctx]

-----------------------------------------------------------------------------
(* orchestrate.py: phase handlers.  inp holds what the operator types at the  *)
(* handler's prompts (yn at every yes/no prompt, "" for Enter), the text the   *)
(* operator leaves in docs/prd.md when asked to fill it in, and whether the    *)
(* collaborator scripts the handler starts succeed (ok).                       *)

\* if cond: run_script(...) of a collaborator that writes out
ScriptIf(cond, f, out, ok, dry) == IF cond THEN run_script(f, out, "", ok, dry) ELSE f

\* if not path.exists(): write_file(path, content, dry_run)
WriteIfMissing(f, path, content, dry) ==
    IF FsExists(f, path) THEN f ELSE write_file(f, path, content, dry)

\* if not path.exists() and not dry_run: if prompt_yn(...): write_file(...); input(...)
\* the operator leaves text in the file before pressing Enter
OfferFile(f, path, content, yn, text, dry) ==
    IF ~FsExists(f, path) /\ ~dry /\ prompt_yn(yn, "y")
    THEN WriteText(write_file(f, path, content, dry), path, prompt(text, content))
    ELSE f

\* if prompt_yn(question, "n"): add_note(state, phase, note)
NoteIf(st, phase, note, yn) == IF prompt_yn(yn, "n") THEN add_note(st, phase, note) ELSE st

\* skills/01-requirements/reference/prd_template.md, read at the copy step
PRD_TEMPLATE == "# Product Requirements Document"

run_requirements(st, f, ctx, inp, dry) ==
    LET f1 == ScriptIf(prompt_yn(inp.yn, "y"), f, "docs/requirements.md", inp.ok, dry)
        f2 == OfferFile(f1, "docs/prd.md", PRD_TEMPLATE, inp.yn, inp.prd_text, dry)
        f3 == OfferFile(f2, "docs/user-stories.md", "# User Stories", inp.yn, "", dry)
        f4 == OfferFile(f3, "docs/tech-feasibility.md",
                        "# Technical Feasibility Assessment", inp.yn, "", dry)
    IN  Result(NoteIf(st, "requirements",
                      "Stakeholder sign-off recorded for requirements", inp.yn),
               f4, ctx)

\* git init, when there is no .git yet
GitInit(f, ok, dry) == IF ~FsExists(f, ".git") /\ ~dry /\ ok THEN MkDir(f, ".git") ELSE f

\* setup_git_hooks.sh installs into .git/hooks of an existing repository
GitHooks(f, yn, ok, dry) ==
    ScriptIf(prompt_yn(yn, "y") /\ FsExists(f, ".git"), f, ".git/hooks/pre-commit", ok, dry)

run_development(st, f, ctx, inp, dry) ==
    LET ctx1 == Put(ctx, "project_type", prompt(inp.project_type, "python"))
        \* init_project.sh scaffolds the project (pyproject.toml for python)
        f1 == ScriptIf(prompt_yn(inp.yn, "y") /\ prompt(inp.project_type, "python") = "python",
                       f, "pyproject.toml", inp.ok, dry)
        f2 == GitInit(f1, inp.ok, dry)
        f3 == GitHooks(f2, inp.yn, inp.ok, dry)
        f4 == WriteIfMissing(f3, ".pre-commit-config.yaml", "repos: []", dry)
        f5 == WriteIfMissing(f4, "docs/git-workflow.md", "# Git Workflow", dry)
        f6 == WriteIfMissing(f5, "README.md", "# " \o ctx["project_name"], dry)
    IN  Result(NoteIf(st, "development",
                      "Code review process defined and initial review completed", inp.yn),
               f6, ctx1)

\* DEFAULT_OUTPUTS of generate_pipeline.py
PipelinePath(platform) ==
    CASE platform = "github" -> ".github/workflows/ci.yml"
      [] platform = "gitlab" -> ".gitlab-ci.yml"
      [] platform = "jenkins" -> "Jenkinsfile"

\* lint_configs.get(project_type, ("pyproject.toml", None)); write it when it is
\* missing and has content
LintConfig(f, project_type, dry) ==
    CASE project_type = "node" -> WriteIfMissing(f, ".eslintrc.json", "{}", dry)
      [] project_type = "go" -> WriteIfMissing(f, ".golangci.yml", "run:", dry)
      [] OTHER -> f

\* the Docker assets are copied when they exist below the repository root
DockerAsset(f, path, yn, ok, dry) ==
    IF prompt_yn(yn, "n") /\ ok THEN WriteIfMissing(f, path, "", dry) ELSE f

\* add_note twice when the pipeline is generated
PipelineNotes(st, yn) ==
    IF prompt_yn(yn, "y")
    THEN add_note(add_note(st, "cicd", "Build step defined in CI pipeline"),
                  "cicd", "Test step configured in CI pipeline")
    ELSE st

run_cicd(st, f, ctx, inp, dry) ==
    LET ctx1 == Put(ctx, "ci_platform", prompt(inp.ci_platform, "github"))
        f1 == ScriptIf(prompt_yn(inp.yn, "y"), f,
                       PipelinePath(prompt(inp.ci_platform, "github")), inp.ok, dry)
        f2 == LintConfig(f1, Get(ctx, "project_type", "python"), dry)
        f3 == DockerAsset(f2, "Dockerfile", inp.yn, inp.ok, dry)
        f4 == DockerAsset(f3, "docker-compose.yml", inp.yn, inp.ok, dry)
    IN  Result(NoteIf(PipelineNotes(st, inp.yn), "cicd", "Pipeline verified end-to-end",
                      inp.yn),
               f4, ctx1)

\* Step 1 of run_testing: test_planner.py, or a placeholder when there is no PRD
TestPlan(f, yn, ok, dry) ==
    IF FsExists(f, "docs/prd.md")
    THEN ScriptIf(prompt_yn(yn, "y"), f, "docs/test-plan.md", ok, dry)
    ELSE WriteIfMissing(f, "docs/test-plan.md", "# Test Plan", dry)

\* Step 2 of run_testing
TestsDir(f, dry) ==
    IF ~FsExists(f, "tests") /\ ~dry
    THEN write_file(MkDir(f, "tests"), "tests/test_placeholder.py",
                    "# Add your tests here", dry)
    ELSE f

\* Step 3 of run_testing: coverage_dir.mkdir is not guarded by dry_run
CoverageDir(f, coverage_path, dry) ==
    IF prompt(coverage_path, "") = "" /\ ~FsExists(f, "coverage")
    THEN write_file(MkDir(f, "coverage"), "coverage/placeholder.txt", "", dry)
    ELSE f

run_testing(st, f, ctx, inp, dry) ==
    LET f1 == TestPlan(f, inp.yn, inp.ok, dry)
        f2 == TestsDir(f1, dry)
        f3 == CoverageDir(f2, inp.coverage_path, dry)
        st1 == NoteIf(st, "testing", "Coverage meets threshold of 80%", inp.yn)
    IN  Result(NoteIf(st1, "testing", "All critical bugs resolved", inp.yn), f3, ctx)

\* Step 1 of run_uat: generate_uat_plan.py, else a placeholder when the plan is missing
UatPlan(f, yn, ok, dry) ==
    IF FsExists(f, "docs/prd.md") /\ prompt_yn(yn, "y")
    THEN run_script(f, "docs/uat-plan.md", "", ok, dry)
    ELSE WriteIfMissing(f, "docs/uat-plan.md", "# UAT Plan", dry)

run_uat(st, f, ctx, inp, dry) ==
    LET st1 == NoteIf(st, "uat", "UAT environment available and configured", inp.yn)
        st2 == NoteIf(st1, "uat", "All UAT test cases executed successfully", inp.yn)
    IN  Result(NoteIf(st2, "uat", "Stakeholder sign-off obtained for UAT", inp.yn),
               UatPlan(f, inp.yn, inp.ok, dry), ctx)

\* Step 2 of run_deployment: the note is added whatever the script returns
RunbookNote(st, strategy, yn) ==
    IF prompt_yn(yn, "y")
    THEN add_note(st, "deployment", "Deployment strategy: " \o strategy) ELSE st

run_deployment(st, f, ctx, inp, dry) ==
    LET ctx1 == Put(ctx, "deploy_strategy", prompt(inp.deploy_strategy, "canary"))
        ctx2 == Put(ctx1, "service_name",
                    prompt(inp.service_name, Get(ctx, "project_name", "my-service")))
        f1 == ScriptIf(prompt_yn(inp.yn, "y"), f, "docs/deployment-runbook.md", inp.ok, dry)
        f2 == WriteIfMissing(f1, "docs/rollback-procedure.md", "# Rollback Procedure", dry)
        f3 == WriteIfMissing(f2, "smoke-tests.json", "[]", dry)
        st1 == RunbookNote(st, prompt(inp.deploy_strategy, "canary"), inp.yn)
    IN  Result(NoteIf(st1, "deployment", "Pre-deployment checklist complete", inp.yn),
               f3, ctx2)

\* service = ctx.get("service_name", ctx.get("project_name", "my-service"))
Service(ctx) == Get(ctx, "service_name", Get(ctx, "project_name", "my-service"))

\* Steps 1 to 3 of run_monitoring
MonitoringFiles(f, service, yn, ok, dry) ==
    LET f1 == WriteIfMissing(f, "docs/slo-definition.md", "# SLO Definition", dry)
        f2 == ScriptIf(prompt_yn(yn, "y"), f1,
                       "alerts/" \o service \o "-alerts-prometheus.yml", ok, dry)
        f3 == ScriptIf(prompt_yn(yn, "y"), f2,
                       "docs/incidents/template-incident-for-runbook.md", ok, dry)
    IN  WriteIfMissing(f3, "docs/incident-response.md", "# Incident Response Plan", dry)

\* Steps 4 and 5 of run_monitoring
MonitoringNotes(st, service, yn) ==
    NoteIf(NoteIf(st, "monitoring", "Monitoring configured for " \o service, yn),
           "monitoring", "Dashboard created for " \o service, yn)

run_monitoring(st, f, ctx, inp, dry) ==
    Result(MonitoringNotes(st, Service(ctx), inp.yn),
           MonitoringFiles(f, Service(ctx), inp.yn, inp.ok, dry),
           Put(ctx, "slo_target", prompt(inp.slo_target, "99.9")))

\* PHASE_HANDLERS[phase](state, project_dir, ctx, dry_run)
PHASE_HANDLERS(phase, st, f, ctx, inp, dry) ==
    CASE phase = "requirements" -> run_requirements(st, f, ctx, inp, dry)
      [] phase = "development" -> run_development(st, f, ctx, inp, dry)
      [] phase = "cicd" -> run_cicd(st, f, ctx, inp, dry)
      [] phase = "testing" -> run_testing(st, f, ctx, inp, dry)
      [] phase = "uat" -> run_uat(st, f, ctx, inp, dry)
      [] phase = "deployment" -> run_deployment(st, f, ctx, inp, dry)
      [] phase = "monitoring" -> run_monitoring(st, f, ctx, inp, dry)

-----------------------------------------------------------------------------
(* Inputs of the model: what the operator types and how the collaborators end *)

Inp(yn, ok, prd_text) ==
    [yn |-> yn, ok |-> ok, prd_text |-> prd_text, project_type |-> "",
     ci_platform |-> "", deploy_strategy |-> "", service_name |-> "",
     coverage_path |-> "", slo_target |-> ""]

\* yes at every prompt with the PRD filled in, Enter at every prompt, yes at every
\* prompt with the PRD template left as it is
HandlerInputs ==
    {Inp("y", TRUE, "## Acceptance Criteria"), Inp("", TRUE, ""), Inp("y", TRUE, "")}

ProjectNames == {"Demo"}

\* --start-from, "" when not given
StartFromArgs == {"", "requirements", "testing"}

\* what the operator types at the gate-failure prompt
GateAnswers == {"", "retry", "fix", "skip", "quit", "help"}

\* the files the operator can supply out of band while the orchestrator waits at "fix"
FixFiles(phase) ==
    CASE phase = "requirements" ->
            {File("docs/prd.md", "## Acceptance Criteria")}
      [] phase = "development" -> {Dir(".git")}
      [] phase = "cicd" -> {File(".github/workflows/ci.yml", ""), File("pyproject.toml", "")}
      [] phase = "testing" -> {File("docs/test-plan.md", "")}
      [] phase = "uat" -> {File("docs/uat-plan.md", "")}
      [] phase = "deployment" -> {File("docs/deployment-runbook.md", "")}
      [] phase = "monitoring" -> {File("alerts/rules.yml", "")}

RECURSIVE WriteAll(_, _)
WriteAll(f, files) ==
    IF files = {} THEN f
    ELSE LET e == CHOOSE x \in files : TRUE
         IN  WriteAll(IF e.kind = "dir" THEN MkDir(f, e.path)
                      ELSE WriteText(f, e.path, e.text), files \ {e})

-----------------------------------------------------------------------------
(* orchestrate.py: main() *)

NoCtx == [k \in {} |-> ""]

NoSession == [kind |-> "none"]

Init ==
    /\ fs = {}
    /\ disk = Absent
    /\ pc = "idle"
    /\ state = NoState
    /\ idx = 0
    /\ dry_run = FALSE
    /\ start_from = ""
    /\ start_idx = 0
    /\ gate_passed = FALSE
    /\ action = ""
    /\ main_ctx = NoCtx
    /\ session = NoSession
    /\ gate_out = NoGateOut
    /\ exit_code = 0
    /\ visited = <<>>
    /\ attempts = 0
    /\ runs = 0
    /\ jumped = FALSE

\* the process is gone: sys.exit or the end of main()
Exit(code) ==
    /\ pc' = "idle"
    /\ state' = NoState
    /\ idx' = 0
    /\ dry_run' = FALSE
    /\ start_from' = ""
    /\ start_idx' = 0
    /\ gate_passed' = FALSE
    /\ action' = ""
    /\ main_ctx' = NoCtx
    /\ session' = NoSession
    /\ visited' = <<>>
    /\ attempts' = 0
    /\ exit_code' = code
    /\ runs' = runs + 1

\* python init_sdlc.py --project-name name [--force]
InitSdlcCLI(name, force) ==
    /\ pc = "idle"
    /\ runs < MaxRuns
    /\ LET r == init_sdlc(name, fs, disk, force)
       IN  /\ fs' = r.fs
           /\ disk' = r.disk
           /\ exit_code' = r.exit_code
    /\ runs' = runs + 1
    /\ UNCHANGED <<pc, state, idx, run_vars, gate_passed, action, main_ctx, gate_out,
                   visited, attempts, jumped>>

\* the synthetic state of a dry run without a state document
SyntheticState(project_name) ==
    [project_name |-> project_name,
     current_phase |-> "requirements",
     phases |-> [p \in Phases |->
                    [status |-> "pending", gate_passed |-> FALSE, notes |-> <<>>,
                     started_at |-> Null, completed_at |-> Null]]]

\* start_phase = args.start_from or state.get("current_phase", "requirements")
StartPhaseFirst(sf, st) == "requirements"

StartPhase(sf, st) == IF sf # "" THEN sf ELSE st.current_phase

\* main() up to the phase walk: load or initialize the state, choose the start
StartRun(dry, sf, name, inp) ==
    /\ pc = "idle"
    /\ runs < MaxRuns
    /\ UNCHANGED <<gate_out>>
    /\ IF disk.kind = "corrupt"
       THEN \* json.JSONDecodeError, caught at the bottom of the script
            /\ Exit(1)
            /\ UNCHANGED <<fs, disk, jumped>>
       ELSE LET r == IF disk.kind = "absent" /\ ~dry
                     THEN init_sdlc(name, fs, disk, FALSE)
                     ELSE [fs |-> fs, disk |-> disk, exit_code |-> 0]
            IN  /\ fs' = r.fs
                /\ disk' = r.disk
                /\ IF r.disk.kind = "absent" /\ ~dry
                   THEN Exit(1) /\ UNCHANGED jumped
                   ELSE LET st == IF r.disk.kind = "absent"
                                  THEN SyntheticState(name) ELSE r.disk.doc
                            start_phase == StartPhase(sf, st)
                        IN  /\ state' = st
                            /\ main_ctx' = [project_name |-> st.project_name,
                                       project_type |-> "python"]
                            /\ session' = inp
                            /\ dry_run' = dry
                            /\ start_from' = sf
                            /\ start_idx' = PhaseIndex(start_phase)
                            /\ idx' = PhaseIndex(start_phase)
                            /\ pc' = "loop"
                            /\ visited' = <<>>
                            /\ jumped' = (jumped \/ sf # "")
                            /\ UNCHANGED <<gate_passed, action, exit_code, attempts,
                                           runs>>

Phase == PHASE_ORDER[idx]

\* for idx in range(start_idx, len(PHASE_ORDER)) is exhausted: "SDLC Complete!"
Finish ==
    /\ pc = "loop"
    /\ idx > Len(PHASE_ORDER)
    /\ Exit(0)
    /\ UNCHANGED <<fs, disk, gate_out, jumped>>

NeverCompleted(st, phase) == FALSE

\* phase_data.get("status") == "completed" and phase_data.get("gate_passed")
AlreadyCompleted(st, phase) ==
    st.phases[phase].status = "completed" /\ st.phases[phase].gate_passed

\* "Skip completed phases": continue
SkipCompleted ==
    /\ pc = "loop"
    /\ idx <= Len(PHASE_ORDER)
    /\ AlreadyCompleted(state, Phase)
    /\ idx' = idx + 1
    /\ UNCHANGED <<fs, disk, pc, state, run_vars, gate_passed, action, main_ctx,
                   gate_out, exit_code, visited, attempts, runs, jumped>>

\* mark_started(state, phase); save_state(...)
BeginPhase ==
    /\ pc = "loop"
    /\ idx <= Len(PHASE_ORDER)
    /\ ~AlreadyCompleted(state, Phase)
    /\ LET st == mark_started(state, Phase)
       IN  /\ state' = Stamped(st, dry_run)
           /\ disk' = save_state(disk, st, dry_run)
    /\ visited' = Append(visited, Phase)
    /\ pc' = "handler"
    /\ UNCHANGED <<fs, idx, run_vars, gate_passed, action, main_ctx, gate_out,
                   exit_code, attempts, runs, jumped>>

RunHandlerAborts ==
    /\ pc = "handler"
    /\ IF session.ok
       THEN LET r == PHASE_HANDLERS(Phase, state, fs, main_ctx, session, dry_run)
            IN  /\ state' = Stamped(r.state, dry_run)
                /\ disk' = save_state(disk, r.state, dry_run)
                /\ fs' = r.fs
                /\ main_ctx' = r.ctx
                /\ gate_passed' = FALSE
                /\ attempts' = 0
                /\ pc' = "gate"
                /\ UNCHANGED <<idx, run_vars, action, gate_out, exit_code, visited, runs,
                               jumped>>
       ELSE Exit(1) /\ UNCHANGED <<fs, disk, gate_out, jumped>>

RunHandlerUnsaved ==
    /\ pc = "handler"
    /\ LET r == PHASE_HANDLERS(Phase, state, fs, main_ctx, session, dry_run)
       IN  /\ state' = r.state
           /\ fs' = r.fs
           /\ main_ctx' = r.ctx
    /\ gate_passed' = FALSE
    /\ attempts' = 0
    /\ pc' = "gate"
    /\ UNCHANGED <<disk, idx, run_vars, action, gate_out, exit_code, visited, runs,
                   jumped>>

\* PHASE_HANDLERS[phase](state, project_dir, ctx, dry_run); save_state(...);
\* gate_passed = False
RunHandler ==
    /\ pc = "handler"
    /\ LET r == PHASE_HANDLERS(Phase, state, fs, main_ctx, session, dry_run)
       IN  /\ state' = Stamped(r.state, dry_run)
           /\ disk' = save_state(disk, r.state, dry_run)
           /\ fs' = r.fs
           /\ main_ctx' = r.ctx
    /\ gate_passed' = FALSE
    /\ attempts' = 0
    /\ pc' = "gate"
    /\ UNCHANGED <<idx, run_vars, action, gate_out, exit_code, visited, runs, jumped>>

\* the gate_validator.py --phase process that run_gate starts; none under dry_run
GateProcess(phase, pd, dry) ==
    IF dry THEN NoGateOut ELSE gate_validator_main(phase, FALSE, pd)

run_gate_always(out, dry) == TRUE

\* run_gate(phase, project_dir, dry_run): True under dry_run, else returncode == 0
run_gate(out, dry) == IF dry THEN TRUE ELSE out.exit_code = 0

RunGateWith(out) ==
    /\ gate_passed' = run_gate(out, dry_run)
    /\ gate_out' = out
    /\ attempts' = attempts + 1
    /\ pc' = "gated"
    /\ UNCHANGED <<fs, disk, state, idx, run_vars, action, main_ctx, exit_code, visited,
                   runs, jumped>>

\* gate_passed = run_gate(phase, project_dir, dry_run)
RunGate ==
    /\ pc = "gate"
    /\ RunGateWith(GateProcess(Phase, ProjectDir(fs, disk), dry_run))

\* if gate_passed: mark_completed(state, phase); save_state(...)
GatePassed ==
    /\ pc = "gated"
    /\ gate_passed
    /\ LET st == mark_completed(state, Phase)
       IN  /\ state' = Stamped(st, dry_run)
           /\ disk' = save_state(disk, st, dry_run)
    /\ pc' = "advance"
    /\ UNCHANGED <<fs, idx, run_vars, gate_passed, action, main_ctx, gate_out,
                   exit_code, visited, attempts, runs, jumped>>

GATE_ACTIONS == <<"retry", "fix", "skip", "quit">>

\* else: action = prompt_choice("What would you like to do?", [...], "retry");
\* an answer that is none of the choices is asked for again
GateBlocked(raw) ==
    /\ pc = "gated"
    /\ ~gate_passed
    /\ IF ChoiceAccepted(raw, GATE_ACTIONS, "retry")
       THEN /\ prompt(raw, "retry") \in {"retry", "fix"} => attempts < MaxAttempts
            /\ action' = prompt(raw, "retry")
            /\ pc' = "chosen"
       ELSE UNCHANGED <<action, pc>>
    /\ UNCHANGED <<fs, disk, state, idx, run_vars, gate_passed, main_ctx, gate_out,
                   exit_code, visited, attempts, runs, jumped>>

\* action == "quit": save_state(...); sys.exit(0)
Quit ==
    /\ pc = "chosen"
    /\ action = "quit"
    /\ disk' = save_state(disk, state, dry_run)
    /\ Exit(0)
    /\ UNCHANGED <<fs, gate_out, jumped>>

\* action == "skip": mark_completed(state, phase); save_state(...); gate_passed = True
Skip ==
    /\ pc = "chosen"
    /\ action = "skip"
    /\ LET st == mark_completed(state, Phase)
       IN  /\ state' = Stamped(st, dry_run)
           /\ disk' = save_state(disk, st, dry_run)
    /\ gate_passed' = TRUE
    /\ pc' = "advance"
    /\ UNCHANGED <<fs, idx, run_vars, action, main_ctx, gate_out, exit_code, visited,
                   attempts, runs, jumped>>

\* action == "fix": input("Press Enter when ready..."), while the operator
\* changes the project directory out of band; then the loop checks the gate again
Fix ==
    /\ pc = "chosen"
    /\ action = "fix"
    /\ fs' = WriteAll(fs, FixFiles(Phase))
    /\ pc' = "gate"
    /\ UNCHANGED <<disk, state, idx, run_vars, gate_passed, action, main_ctx, gate_out,
                   exit_code, visited, attempts, runs, jumped>>

RetryAdvances ==
    /\ pc = "chosen"
    /\ action = "retry"
    /\ pc' = "advance"
    /\ UNCHANGED <<fs, disk, state, idx, run_vars, gate_passed, action, main_ctx,
                   gate_out, exit_code, visited, attempts, runs, jumped>>

\* action == "retry": the loop checks the gate again
Retry ==
    /\ pc = "chosen"
    /\ action = "retry"
    /\ pc' = "gate"
    /\ UNCHANGED <<fs, disk, state, idx, run_vars, gate_passed, action, main_ctx,
                   gate_out, exit_code, visited, attempts, runs, jumped>>

\* state["current_phase"] = PHASE_ORDER[idx + 1], with the 1-based index i
NextPhaseStays(st, i) == st

NextPhaseSkips(st, i) ==
    [st EXCEPT !.current_phase = PHASE_ORDER[IF i + 2 <= Len(PHASE_ORDER) THEN i + 2
                                             ELSE i + 1]]

NextPhase(st, i) == [st EXCEPT !.current_phase = PHASE_ORDER[i + 1]]

AdvanceTwo ==
    /\ pc = "advance"
    /\ IF idx + 1 <= Len(PHASE_ORDER)
       THEN /\ state' = Stamped(NextPhase(state, idx), dry_run)
            /\ disk' = save_state(disk, NextPhase(state, idx), dry_run)
       ELSE UNCHANGED <<state, disk>>
    /\ idx' = idx + 2
    /\ pc' = "loop"
    /\ UNCHANGED <<fs, run_vars, gate_passed, action, main_ctx, gate_out, exit_code,
                   visited, attempts, runs, jumped>>

\* "Advance to next phase": if idx + 1 < len(PHASE_ORDER): ...; save_state(...)
Advance ==
    /\ pc = "advance"
    /\ IF idx + 1 <= Len(PHASE_ORDER)
       THEN /\ state' = Stamped(NextPhase(state, idx), dry_run)
            /\ disk' = save_state(disk, NextPhase(state, idx), dry_run)
       ELSE UNCHANGED <<state, disk>>
    /\ idx' = idx + 1
    /\ pc' = "loop"
    /\ UNCHANGED <<fs, run_vars, gate_passed, action, main_ctx, gate_out, exit_code,
                   visited, attempts, runs, jumped>>

Next ==
    \/ \E name \in ProjectNames, force \in BOOLEAN : InitSdlcCLI(name, force)
    \/ \E dry \in BOOLEAN, sf \in StartFromArgs, name \in ProjectNames,
          inp \in HandlerInputs : StartRun(dry, sf, name, inp)
    \/ Finish
    \/ SkipCompleted
    \/ BeginPhase
    \/ RunHandler
    \/ RunGate
    \/ GatePassed
    \/ \E raw \in GateAnswers : GateBlocked(raw)
    \/ Quit
    \/ Skip
    \/ Fix
    \/ Retry
    \/ Advance

Spec == Init /\ [][Next]_vars

-----------------------------------------------------------------------------
(* gate_validator.py on its own, over the project directories the orchestrator *)
(* leaves behind                                                               *)

\* a phase id that has no entry in GATE_CRITERIA
UnknownPhase == "release"

\* the operator profiles of the walk, and yes at every prompt with failing collaborators
GateSessions == HandlerInputs \cup {Inp("y", FALSE, "")}

\* --phase ("" when not given) and --all
GateArgs ==
    {<<phase, FALSE>> : phase \in Phases \cup {""}} \cup {<<"", TRUE>>, <<"cicd", TRUE>>}

\* a project right after init_sdlc.py
InitGate ==
    /\ runs = 0
    /\ fs = SdlcEntries
    /\ disk = Json(create_state("Demo"))
    /\ main_ctx = [project_name |-> "Demo", project_type |-> "python"]
    /\ pc = "idle"
    /\ state = NoState
    /\ idx = 0
    /\ dry_run = FALSE
    /\ start_from = ""
    /\ start_idx = 0
    /\ session = NoSession
    /\ gate_passed = FALSE
    /\ action = ""
    /\ gate_out = NoGateOut
    /\ exit_code = 0
    /\ visited = <<>>
    /\ attempts = 0
    /\ jumped = FALSE

HandlerDone(r) ==
    /\ fs' = r.fs
    /\ disk' = Json(r.state)
    /\ main_ctx' = r.ctx
    /\ idx' = idx + 1
    /\ gate_out' = NoGateOut
    /\ UNCHANGED <<pc, state, dry_run, start_from, start_idx, gate_passed, action,
                   exit_code, visited, attempts, runs, jumped>>

\* the project grows as a walk leaves it: the handler of the next phase runs and
\* the state is saved; one operator profile per project
ProjectStep(inp) ==
    /\ pc = "idle"
    /\ idx < Len(PHASE_ORDER)
    /\ disk.kind = "json"
    /\ session \in {NoSession, inp}
    /\ session' = inp
    /\ HandlerDone(PHASE_HANDLERS(PHASE_ORDER[idx + 1], disk.doc, fs, main_ctx, inp, FALSE))

\* state.json is deleted, or damaged by hand
DamageState(kind) ==
    /\ pc = "idle"
    /\ disk.kind = "json"
    /\ disk' = [kind |-> kind]
    /\ gate_out' = NoGateOut
    /\ UNCHANGED <<fs, pc, state, idx, run_vars, gate_passed, action, main_ctx,
                   exit_code, visited, attempts, runs, jumped>>

GateExit(out) ==
    /\ gate_out' = out
    /\ exit_code' = out.exit_code
    /\ UNCHANGED <<fs, disk, pc, state, idx, run_vars, gate_passed, action, main_ctx,
                   visited, attempts, runs, jumped>>

\* python gate_validator.py [--phase phase] [--all]; the validator only reads, so
\* one process per shape of the project directory is followed
GateValidatorCLI(phase, all) ==
    /\ pc = "idle"
    /\ gate_out = NoGateOut
    /\ GateExit(gate_validator_main(phase, all, ProjectDir(fs, disk)))

ValidateReturnRecords(phase, v) ==
    /\ gate_out' = [phases |-> <<phase>>, results |-> <<v>>, raised |-> v.raised]
    /\ disk' = IF disk.kind = "json" /\ phase \in Phases
               THEN Json(add_note(disk.doc, phase, "gate checked")) ELSE disk
    /\ UNCHANGED <<fs, pc, state, idx, run_vars, gate_passed, action, main_ctx,
                   exit_code, visited, attempts, runs, jumped>>

ValidateReturn(phase, v) ==
    /\ gate_out' = [phases |-> <<phase>>, results |-> <<v>>, raised |-> v.raised]
    /\ UNCHANGED <<fs, disk, pc, state, idx, run_vars, gate_passed, action, main_ctx,
                   exit_code, visited, attempts, runs, jumped>>

\* validate_phase(phase, project_dir), called as a library function
ValidatePhase(phase) ==
    /\ pc = "idle"
    /\ gate_out = NoGateOut
    /\ ValidateReturn(phase, validate_phase(phase, ProjectDir(fs, disk)))

NextGate ==
    \/ \E inp \in GateSessions : ProjectStep(inp)
    \/ \E kind \in {"absent", "corrupt"} : DamageState(kind)
    \/ \E a \in GateArgs : GateValidatorCLI(a[1], a[2])
    \/ \E phase \in Phases \cup {UnknownPhase} : ValidatePhase(phase)

SpecGate == InitGate /\ [][NextGate]_vars

-----------------------------------------------------------------------------
(* The gate verdict *)

\* the report on hand comes from a gate_validator.py process that addressed phases
FromGateCLI == "exit_code" \in DOMAIN gate_out /\ gate_out.phases # <<>>

NoFailures(results) == \A i \in 1..Len(results) : results[i].failed = <<>>

\* C3: the gate-validate process exits with 0 exactly when every phase it addressed
\* (the single --phase, or all seven with --all) has an empty failed list, and with
\* 1 otherwise, however many criteria passed
C3_ExitZeroIffNoFailures ==
    FromGateCLI =>
        /\ gate_out.phases = (IF gate_out.args.all THEN PHASE_ORDER
                              ELSE <<gate_out.args.phase>>)
        /\ Len(gate_out.results) = Len(gate_out.phases)
        /\ exit_code = gate_out.exit_code
        /\ exit_code \in {0, 1}
        /\ exit_code = 0 <=> (~gate_out.raised /\ NoFailures(gate_out.results))

\* development is checked alone, four of its five criteria pass, and the exit code is 1
C3_Witness ==
    /\ FromGateCLI
    /\ gate_out.phases = <<"development">>
    /\ ~gate_out.raised
    /\ Len(gate_out.results[1].passed) = 4
    /\ Len(gate_out.results[1].failed) = 1
    /\ exit_code = 1

\* the descriptions of the criteria of cs, in order
Descriptions(cs) == [i \in 1..Len(cs) |-> cs[i].description]

\* how often description d occurs in the list
Occurrences(d, list) == Cardinality({i \in 1..Len(list) : list[i] = d})

\* a verdict v that validate_phase returned for phase on the directory pd splits
\* the registry criteria of the phase
Partitions(v, phase, pd) ==
    LET cs == Criteria(phase)
    IN  /\ v.passed = Descriptions(SelectSeq(cs, LAMBDA c :
                            c.checker \in CHECKERS /\ RunChecker(c.checker, pd, c.args)))
        /\ v.failed = Descriptions(SelectSeq(cs, LAMBDA c :
                            ~(c.checker \in CHECKERS /\ RunChecker(c.checker, pd, c.args))))
        /\ \A i \in 1..Len(cs) :
              Occurrences(cs[i].description, v.passed)
                  + Occurrences(cs[i].description, v.failed) = 1
        /\ Len(v.passed) + Len(v.failed) = Len(cs)
        /\ phase \notin DOMAIN GATE_CRITERIA => v.passed = <<>> /\ v.failed = <<>>

\* C4: whenever validate_phase returns, each criterion of the phase is in exactly one
\* of passed and failed, passed holds those whose checker returned true, both lists
\* are in registry order, and a phase without registry entry yields two empty lists
C4_ValidatePartitions ==
    \A i \in 1..Len(gate_out.results) :
        ~gate_out.results[i].raised =>
            Partitions(gate_out.results[i], gate_out.phases[i], ProjectDir(fs, disk))

\* validate_phase was called on its own and returned at least two criteria in each list
C4_Witness ==
    /\ "exit_code" \notin DOMAIN gate_out
    /\ ~gate_out.results[1].raised
    /\ Len(gate_out.results[1].passed) >= 2
    /\ Len(gate_out.results[1].failed) >= 2

-----------------------------------------------------------------------------
(* The phase state machine *)

\* the state document on disk can be read
Persisted == disk.kind = "json"

\* the orchestrator takes the step
OrchestratorStep == pc # "idle" \/ pc' # "idle"

\* C1: in every state document on disk, a phase whose status is completed has
\* gate_passed true
C1_CompletedHasGatePassed ==
    Persisted =>
        \A p \in Phases :
            disk.doc.phases[p].status = "completed" => disk.doc.phases[p].gate_passed

\* the operator skipped a failing gate, and the phase is completed on disk
C1_Witness ==
    /\ pc = "advance"
    /\ ~dry_run
    /\ gate_out.exit_code = 1
    /\ Persisted
    /\ disk.doc.phases[Phase].status = "completed"

\* the step writes status completed, or gate_passed true, for phase p to disk
BecomesCompleted(p) ==
    /\ disk'.kind = "json"
    /\ \/ /\ disk'.doc.phases[p].status = "completed"
          /\ ~(Persisted /\ disk.doc.phases[p].status = "completed")
       \/ /\ disk'.doc.phases[p].gate_passed
          /\ ~(Persisted /\ disk.doc.phases[p].gate_passed)

\* the step is taken right after a gate check of phase p that reported no failing
\* criterion
AfterCleanGateCheck(p) ==
    /\ pc = "gated"
    /\ gate_out.args = [phase |-> p, all |-> FALSE]
    /\ gate_out.phases = <<p>>
    /\ ~gate_out.raised
    /\ gate_out.results[1].failed = <<>>

\* the step is taken right after the operator chose skip in the gate loop
AfterSkipChosen == pc = "chosen" /\ action = "skip"

\* C2: a phase's status on disk becomes completed, or its gate_passed true, only in
\* the step right after a gate check of that phase without failing criteria or
\* right after the operator chose skip for it, and then both are written together
C2_CompletedOnlyAfterGateOrSkip ==
    [][\A p \in Phases :
          BecomesCompleted(p) =>
              /\ ~dry_run
              /\ pc \in {"gated", "chosen"}
              /\ p = Phase
              /\ AfterCleanGateCheck(p) \/ AfterSkipChosen
              /\ disk'.doc.phases[p].status = "completed"
              /\ disk'.doc.phases[p].gate_passed]_vars

\* a gate failed, the operator chose fix, the second check passed, and the phase
\* was completed on disk
C2_Witness ==
    /\ pc = "advance"
    /\ ~dry_run
    /\ attempts = 2
    /\ gate_out.exit_code = 0
    /\ gate_out.phases = <<Phase>>
    /\ disk.doc.phases[Phase].gate_passed

\* C5: as long as no orchestrator run has used --start-from, no step of the
\* orchestrator writes a current_phase to disk that lies before the one on disk
C5_CurrentPhaseNeverDecreases ==
    [][(OrchestratorStep /\ ~jumped' /\ Persisted /\ disk'.kind = "json") =>
          PhaseIndex(disk'.doc.current_phase) >= PhaseIndex(disk.doc.current_phase)]_vars

\* a run without --start-from resumed behind the first phase and has moved
\* current_phase on disk further still
C5_Witness ==
    /\ ~jumped
    /\ pc = "loop"
    /\ ~dry_run
    /\ start_idx > 1
    /\ idx > start_idx
    /\ idx <= Len(PHASE_ORDER)
    /\ visited # <<>>
    /\ disk.doc.current_phase = Phase

\* C6: when the walk reaches a phase that is completed with gate_passed, the step taken
\* only moves to the next index; and no step of the orchestrator changes the record
\* of a completed phase, in memory or on disk
C6_CompletedPhaseIsLeftAlone ==
    [][/\ (/\ pc = "loop"
           /\ idx \in 1..Len(PHASE_ORDER)
           /\ state.phases[Phase].status = "completed"
           /\ state.phases[Phase].gate_passed) =>
              /\ pc' = "loop"
              /\ idx' = idx + 1
              /\ UNCHANGED <<state, disk, fs, gate_out, visited, attempts, main_ctx>>
       /\ (pc # "idle" /\ pc' # "idle") =>
              \A p \in Phases :
                  state.phases[p].status = "completed" =>
                      state'.phases[p] = state.phases[p]
       /\ (OrchestratorStep /\ Persisted /\ disk'.kind = "json") =>
              \A p \in Phases :
                  disk.doc.phases[p].status = "completed" =>
                      disk'.doc.phases[p] = disk.doc.phases[p]]_vars

\* the walk has passed over a completed phase and has started none yet
C6_Witness ==
    /\ pc = "loop"
    /\ idx > start_idx
    /\ visited = <<>>
    /\ state.phases[PHASE_ORDER[start_idx]].status = "completed"

InGateLoop(at) == at \in {"gate", "gated", "chosen"}

\* C7: after a failed gate check the operator's answer is one of retry, fix, skip and
\* quit; retry and fix lead to a gate check of the same phase with the state in
\* memory and on disk as it was; the gate loop is left only after a passing check,
\* after skip, or by quit
C7_GateLoop ==
    [][/\ (pc = "gated" /\ ~gate_passed) =>
              /\ pc' \in {"gated", "chosen"}
              /\ pc' = "chosen" => action' \in {"retry", "fix", "skip", "quit"}
              /\ UNCHANGED <<state, disk, idx>>
       /\ (pc = "chosen" /\ action \in {"retry", "fix"}) =>
              /\ pc' = "gate"
              /\ UNCHANGED <<state, disk, idx>>
       /\ pc = "gate" =>
              /\ pc' = "gated"
              /\ UNCHANGED <<state, disk, idx>>
       /\ (InGateLoop(pc) /\ ~InGateLoop(pc')) =>
              \/ pc = "gated" /\ gate_passed /\ pc' = "advance"
              \/ pc = "chosen" /\ action = "skip" /\ pc' = "advance"
              \/ pc = "chosen" /\ action = "quit" /\ pc' = "idle"]_vars

\* the gate was checked again after retry and still fails
C7_Witness ==
    /\ pc = "gated"
    /\ ~gate_passed
    /\ action = "retry"
    /\ attempts = MaxAttempts

\* C8: quit writes the state to disk and ends the process with the phase left in
\* progress (status in_progress, gate_passed false, current_phase that phase); and
\* a run without --start-from begins its walk at the current_phase on disk
C8_QuitAndResume ==
    [][/\ (pc = "chosen" /\ action = "quit" /\ ~dry_run) =>
              /\ pc' = "idle"
              /\ exit_code' = 0
              /\ disk' = Json([state EXCEPT !.updated_at = Now])
              /\ disk'.doc.phases[Phase].status = "in_progress"
              /\ ~disk'.doc.phases[Phase].gate_passed
              /\ disk'.doc.current_phase = Phase
       /\ (pc = "idle" /\ pc' = "loop" /\ start_from' = "" /\ Persisted) =>
              /\ start_idx' = PhaseIndex(disk.doc.current_phase)
              /\ idx' = start_idx'
              /\ state' = disk.doc]_vars

\* a run without --start-from begins at a later phase that an earlier run left in
\* progress
C8_Witness ==
    /\ pc = "loop"
    /\ start_from = ""
    /\ ~dry_run
    /\ visited = <<>>
    /\ idx = start_idx
    /\ start_idx > 1
    /\ exit_code = 0
    /\ state.phases[Phase].status = "in_progress"
    /\ state.current_phase = Phase

VisitedIdx(i) == PhaseIndex(visited[i])

\* C10: in a run the phases are started in ascending order of the phase order, none
\* before the phase the walk began at (--start-from, else the current_phase on
\* disk), and every phase between the start and the walk's position is completed
C10_WalkInOrder ==
    pc # "idle" =>
        /\ \A i \in 1..(Len(visited) - 1) : VisitedIdx(i) < VisitedIdx(i + 1)
        /\ \A i \in 1..Len(visited) : VisitedIdx(i) >= start_idx /\ VisitedIdx(i) <= idx
        /\ start_from # "" => start_idx = PhaseIndex(start_from)
        /\ (start_from = "" /\ Persisted /\ pc = "loop" /\ idx = start_idx) =>
               start_idx = PhaseIndex(disk.doc.current_phase)
        /\ idx >= start_idx
        /\ \A j \in start_idx..(idx - 1) :
               /\ state.phases[PHASE_ORDER[j]].status = "completed"
               /\ state.phases[PHASE_ORDER[j]].gate_passed
        /\ pc \in {"handler", "gate", "gated", "chosen", "advance"} =>
               visited # <<>> /\ visited[Len(visited)] = Phase

\* the run started a phase, passed over a completed one, and started the one after it
C10_Witness ==
    \E i \in 1..(Len(visited) - 1) : VisitedIdx(i + 1) > VisitedIdx(i) + 1

-----------------------------------------------------------------------------
(* --dry-run *)

\* the step belongs to an orchestrator process running with --dry-run
DryRunStep == OrchestratorStep /\ (dry_run \/ dry_run')

\* C11: no step of an orchestrator run with --dry-run changes the state document:
\* after the run the state path holds what it held before (also when it held nothing)
C11_DryRunKeepsStateDocument == [][DryRunStep => disk' = disk]_vars

\* a dry run without a state document has completed a phase in memory, and there is
\* still no state document
C11_Witness ==
    /\ dry_run
    /\ pc = "advance"
    /\ state.phases[Phase].status = "completed"
    /\ disk = Absent

\* C12: no step of an orchestrator run with --dry-run creates, changes or removes a
\* file or directory of the project directory
C12_DryRunKeepsFilesystem == [][DryRunStep => fs' = fs]_vars

-----------------------------------------------------------------------------
(* orchestrate.py: KeyboardInterrupt *)

\* the state dict when a handler waits at its last prompt: the notes of the earlier
\* steps are in the dict, the note of the last step is not
AtLastPrompt(phase, st, ctx, inp) ==
    CASE phase = "cicd" -> PipelineNotes(st, inp.yn)
      [] phase = "testing" ->
            NoteIf(st, "testing", "Coverage meets threshold of 80%", inp.yn)
      [] phase = "uat" ->
            NoteIf(NoteIf(st, "uat", "UAT environment available and configured", inp.yn),
                   "uat", "All UAT test cases executed successfully", inp.yn)
      [] phase = "deployment" ->
            RunbookNote(st, prompt(inp.deploy_strategy, "canary"), inp.yn)
      [] phase = "monitoring" ->
            NoteIf(st, "monitoring", "Monitoring configured for " \o Service(ctx), inp.yn)
      [] OTHER -> st

\* PHASE_HANDLERS[phase](...) has come to the last prompt of the handler and waits
\* in input(); nothing has been saved since mark_started
HandlerPrompt ==
    /\ pc = "handler"
    /\ LET r == PHASE_HANDLERS(Phase, state, fs, main_ctx, session, dry_run)
       IN  /\ fs' = r.fs
           /\ main_ctx' = r.ctx
    /\ state' = AtLastPrompt(Phase, state, main_ctx, session)
    /\ pc' = "handler_prompt"
    /\ UNCHANGED <<disk, idx, run_vars, gate_passed, action, gate_out, exit_code,
                   visited, attempts, runs, jumped>>

\* except KeyboardInterrupt: print("Interrupted. State saved. ..."); sys.exit(130)
KeyboardInterrupt ==
    /\ pc # "idle"
    /\ Exit(130)
    /\ UNCHANGED <<fs, disk, gate_out, jumped>>

SpecInterrupt == Init /\ [][Next \/ HandlerPrompt \/ KeyboardInterrupt]_vars

\* two state dicts agree in everything but updated_at
SameDocument(a, b) == [a EXCEPT !.updated_at = Null] = [b EXCEPT !.updated_at = Null]

\* the step is the exit of an interrupted orchestrator
Interrupted == pc # "idle" /\ pc' = "idle" /\ exit_code' = 130

\* C13: when the operator interrupts a run without --dry-run, the state dict in
\* memory, with the notes and status changes made since the last save, is in the
\* state document when the process has exited, and the exit code is 130
C13_InterruptFlushesState ==
    [][(Interrupted /\ ~dry_run) =>
            /\ disk'.kind = "json"
            /\ SameDocument(disk'.doc, state)
            /\ exit_code' = 130]_vars

-----------------------------------------------------------------------------
(* orchestrate.py: save_state, step by step *)

\* with open(state_path, "w") as f: the file is truncated, and json.dump(state, f)
\* has not yet written the whole document.  The step is taken where the next
\* statements of main() are a change of the state dict and save_state, which then
\* completes the document
SaveOpened ==
    /\ ~dry_run
    /\ disk.kind = "json"
    /\ \/ pc = "loop" /\ idx <= Len(PHASE_ORDER) /\ ~AlreadyCompleted(state, Phase)
       \/ pc = "gated" /\ gate_passed
       \/ pc = "chosen" /\ action \in {"quit", "skip"}
       \/ pc = "advance" /\ idx + 1 <= Len(PHASE_ORDER)
    /\ disk' = [kind |-> "corrupt"]
    /\ UNCHANGED <<fs, pc, state, idx, run_vars, gate_passed, action, main_ctx, gate_out,
                   exit_code, visited, attempts, runs, jumped>>

SpecSave == Init /\ [][Next \/ SaveOpened \/ KeyboardInterrupt]_vars

\* C14: at every instant, also while a save is in progress and after an interrupt
\* during a save, the state path holds a complete document (or none, before the
\* project is initialized): no reader and no later load finds it empty or cut short
C14_SaveIsAtomic == disk.kind \in {"absent", "json"}

-----------------------------------------------------------------------------
(* The state document shared with another actor *)

\* python init_sdlc.py --project-name name --force, started by someone else while the
\* orchestrator waits at the prompt of a blocked gate
OtherActorInit(name) ==
    /\ pc = "gated"
    /\ ~gate_passed
    /\ runs < MaxRuns
    /\ LET r == init_sdlc(name, fs, disk, TRUE)
       IN  /\ fs' = r.fs
           /\ disk' = r.disk
           /\ exit_code' = r.exit_code
    /\ runs' = runs + 1
    /\ UNCHANGED <<pc, state, idx, run_vars, gate_passed, action, main_ctx, gate_out,
                   visited, attempts, jumped>>

SpecShared == Init /\ [][Next \/ \E name \in ProjectNames : OtherActorInit(name)]_vars

\* the running orchestrator writes the state document in this step
OrchestratorSaves == pc # "idle" /\ pc' # pc /\ disk' # disk

\* C15: every save of the orchestrator is based on the state document as it is on
\* disk at the time of the save: the copy in memory that the save writes out was
\* loaded from the document as it is now, not from an earlier one
C15_SaveFollowsFreshLoad == [][OrchestratorSaves => disk = Json(state)]_vars

-----------------------------------------------------------------------------
(* The read-only consumers: validate_phase called again, project_health.py *)

\* python project_health.py: exit 1 without a state document, a traceback (exit 1)
\* when json.load fails, else the dashboard
ProjectHealthCLI ==
    /\ pc = "idle"
    /\ gate_out = NoGateOut
    /\ GateExit([health |-> TRUE, raised |-> disk.kind = "corrupt",
                 exit_code |-> IF disk.kind = "json" THEN 0 ELSE 1])

\* validate_phase(phase, project_dir), called a second time right after the first
ValidateAgain(phase) ==
    /\ pc = "idle"
    /\ DOMAIN gate_out = {"phases", "results", "raised"}
    /\ gate_out.phases = <<phase>>
    /\ LET v == validate_phase(phase, ProjectDir(fs, disk))
       IN  gate_out' = [phases |-> <<phase>>, results |-> <<v>>, raised |-> v.raised,
                        calls |-> 2]
    /\ UNCHANGED <<fs, disk, pc, state, idx, run_vars, gate_passed, action, main_ctx,
                   exit_code, visited, attempts, runs, jumped>>

\* validate_phase over a registry whose list for the phase holds, at position k, a
\* criterion that names a checker CHECKERS does not have
ValidateMalformed(phase, k) ==
    /\ pc = "idle"
    /\ gate_out = NoGateOut
    /\ k \in 1..(Len(Criteria(phase)) + 1)
    /\ LET cs == SubSeq(Criteria(phase), 1, k - 1)
                    \o <<Crit("Malformed entry", "check_nothing", <<>>)>>
                    \o SubSeq(Criteria(phase), k, Len(Criteria(phase)))
           v == ForCriterion(cs, ProjectDir(fs, disk), <<>>, <<>>)
       IN  gate_out' = [phases |-> <<phase>>, results |-> <<v>>, raised |-> v.raised,
                        malformed |-> k]
    /\ UNCHANGED <<fs, disk, pc, state, idx, run_vars, gate_passed, action, main_ctx,
                   exit_code, visited, attempts, runs, jumped>>

-----------------------------------------------------------------------------
(* One criterion satisfied by hand *)

RECURSIVE Concrete(_)
\* a path that the glob pattern matches: every * stands for the letter x
Concrete(pattern) ==
    IF Len(pattern) = 0 THEN ""
    ELSE (IF SubSeq(pattern, 1, 1) = "*" THEN "x" ELSE SubSeq(pattern, 1, 1))
            \o Concrete(SubSeq(pattern, 2, Len(pattern)))

\* the project directory after the one thing criterion c looks for is supplied: the
\* file or directory it names, a file its (first) pattern matches, the keyword in
\* the file, or a note with the keyword
Satisfy(c, pd) ==
    CASE c.checker = "check_file" ->
            ProjectDir(WriteText(pd.fs, c.args[1], ""), pd.disk)
      [] c.checker = "check_dir" ->
            ProjectDir(MkDir(pd.fs, c.args[1]), pd.disk)
      [] c.checker = "check_file_pattern" ->
            ProjectDir(WriteText(pd.fs, Concrete(c.args[1]), ""), pd.disk)
      [] c.checker = "check_any_file" ->
            ProjectDir(WriteText(pd.fs, Concrete(c.args[1][1]), ""), pd.disk)
      [] c.checker = "check_content" ->
            ProjectDir(WriteText(pd.fs, c.args[1], c.args[2]), pd.disk)
      [] c.checker = "check_state_note" ->
            ProjectDir(pd.fs, Json(add_note(pd.disk.doc, c.args[1], c.args[2])))

\* validate_phase(phase, project_dir) has listed criterion k as failed; the operator
\* supplies what it looks for, and validate_phase is called again
SatisfyOne(phase, k) ==
    /\ pc = "idle"
    /\ DOMAIN gate_out = {"phases", "results", "raised"}
    /\ gate_out.phases = <<phase>>
    /\ ~gate_out.raised
    /\ k \in 1..Len(Criteria(phase))
    /\ InSeq(Criteria(phase)[k].description, gate_out.results[1].failed)
    /\ Criteria(phase)[k].checker = "check_state_note" => disk.kind = "json"
    /\ LET pd == Satisfy(Criteria(phase)[k], ProjectDir(fs, disk))
           v == validate_phase(phase, pd)
       IN  /\ fs' = pd.fs
           /\ disk' = pd.disk
           /\ gate_out' = [phases |-> <<phase>>, results |-> <<v>>, raised |-> v.raised,
                           probe |-> k]
    /\ session' = [kind |-> "by hand"]
    /\ UNCHANGED <<pc, state, idx, dry_run, start_from, start_idx, gate_passed, action,
                   main_ctx, exit_code, visited, attempts, runs, jumped>>

NextProbe ==
    \/ \E inp \in GateSessions : ProjectStep(inp)
    \/ \E a \in GateArgs : GateValidatorCLI(a[1], a[2])
    \/ \E phase \in Phases \cup {UnknownPhase} : ValidatePhase(phase)
    \/ \E phase \in Phases \cup {UnknownPhase} : ValidateAgain(phase)
    \/ ProjectHealthCLI
    \/ \E phase \in Phases :
          \E k \in 1..(Len(Criteria(phase)) + 1) : ValidateMalformed(phase, k)
    \/ \E phase \in Phases : \E k \in 1..Len(Criteria(phase)) : SatisfyOne(phase, k)

\* the validator is pointed at a bare directory, or at a project right after
\* init_sdlc.py
SpecProbe == (Init \/ InitGate) /\ [][NextProbe]_vars

\* a gate_validator.py or project_health.py process, or a validate_phase call, runs
\* in this step
ReaderStep == pc = "idle" /\ gate_out = NoGateOut /\ gate_out' # NoGateOut

\* validate_phase is called for the second time in a row in this step
SecondCall == "calls" \in DOMAIN gate_out' /\ "calls" \notin DOMAIN gate_out

C17_UnknownCheckerFails ==
    "malformed" \in DOMAIN gate_out =>
        LET v == gate_out.results[1]
            n == validate_phase(gate_out.phases[1], ProjectDir(fs, disk))
        IN  /\ v.raised = n.raised
            /\ v.passed = n.passed
            /\ SelectSeq(v.failed, LAMBDA d : d # "Malformed entry") = n.failed
            /\ Occurrences("Malformed entry", v.failed) = 1

\* the malformed entry stood in the middle of the cicd criteria, with criteria of
\* the registry on both lists
C17_Witness ==
    /\ "malformed" \in DOMAIN gate_out
    /\ gate_out.malformed = 3
    /\ gate_out.phases = <<"cicd">>
    /\ Len(gate_out.results[1].passed) >= 2
    /\ Len(gate_out.results[1].failed) >= 3

\* C20: supplying exactly what one failed criterion looks for moves that criterion
\* from failed to passed and leaves every other criterion of the phase where it was
C20_CriteriaIndependent ==
    [][("probe" \in DOMAIN gate_out' /\ "probe" \notin DOMAIN gate_out) =>
          LET cs == Criteria(gate_out'.phases[1])
              k == gate_out'.probe
          IN  /\ InSeq(cs[k].description, gate_out'.results[1].passed)
              /\ \A j \in (1..Len(cs)) \ {k} :
                    InSeq(cs[j].description, gate_out'.results[1].passed)
                        <=> InSeq(cs[j].description, gate_out.results[1].passed)]_vars

-----------------------------------------------------------------------------
(* validate_phase over every snapshot of the project *)

\* the report on hand is what one validate_phase call returned
FromValidatePhase == DOMAIN gate_out = {"phases", "results", "raised"}

\* C18: whatever the directory and the state document look like, an unparseable
\* state.json included, validate_phase returns its two lists, every criterion of
\* the phase on one of them, and no exception of a checker reaches the caller
C18_CheckerErrorsStayCriterionFailed ==
    FromValidatePhase =>
        /\ ~gate_out.raised
        /\ ~gate_out.results[1].raised
        /\ Len(gate_out.results[1].passed) + Len(gate_out.results[1].failed)
              = Len(Criteria(gate_out.phases[1]))

\* the directory holds what init_sdlc.py wrote into an empty directory, nothing else
FreshlyInitialized ==
    /\ idx = 0
    /\ fs = SdlcEntries
    /\ disk = Json(create_state("Demo"))

\* C19: right after initialization of an empty directory, validate_phase of each of
\* the seven phases returns an empty passed list and a non-empty failed list
C19_NothingPassesBeforeWork ==
    (FromValidatePhase /\ FreshlyInitialized /\ gate_out.phases[1] \in Phases) =>
        /\ gate_out.results[1].passed = <<>>
        /\ gate_out.results[1].failed # <<>>

-----------------------------------------------------------------------------
(* init_sdlc.py: the state document it writes *)

\* a state document comes to exist where there was none, or init_sdlc.py --force ran
\* to its end
Initialized ==
    \/ disk.kind = "absent" /\ disk'.kind = "json"
    \/ pc = "idle" /\ pc' = "idle" /\ disk.kind = "json" /\ disk' # disk

\* the document of a project on which no work was done: the phases of PHASES, in
\* that order the lifecycle order, each with the pending record
FreshDocument(doc) ==
    /\ doc.current_phase = "requirements"
    /\ [i \in 1..Len(PHASES) |-> PHASES[i].id] = PHASE_ORDER
    /\ \A i \in 1..Len(PHASES) : PHASES[i].order = i
    /\ DOMAIN doc.phases = {PHASES[i].id : i \in 1..Len(PHASES)}
    /\ Cardinality(DOMAIN doc.phases) = 7
    /\ \A p \in DOMAIN doc.phases :
          /\ doc.phases[p].status = "pending"
          /\ doc.phases[p].started_at = Null
          /\ doc.phases[p].completed_at = Null
          /\ doc.phases[p].gate_passed = FALSE
          /\ doc.phases[p].notes = <<>>

\* C21: the state document written by initialization has current_phase
\* "requirements" and exactly the seven phases, in lifecycle order, each pending with
\* null timestamps, gate_passed false and no notes; the load that follows returns it
C21_InitWritesFreshState ==
    [][/\ Initialized => FreshDocument(disk'.doc)
       /\ (Initialized /\ pc' = "loop") => state' = disk'.doc
       /\ (pc = "idle" /\ pc' = "loop" /\ ~dry_run') => state' = disk'.doc]_vars

\* the orchestrator initialized the project and holds the state it loaded
C21_Witness ==
    /\ pc = "loop"
    /\ idx = 1
    /\ runs = 0
    /\ disk.kind = "json"
    /\ state = disk.doc
    /\ FreshDocument(state)

-----------------------------------------------------------------------------
(* init_sdlc.py without --force, over the directories it can be pointed at *)

\* init_sdlc.py without --force is pointed at a bare directory or at a project; the
\* project grows as a walk leaves it, and its state.json is deleted or damaged by hand
SpecInit ==
    (Init \/ InitGate)
        /\ [][\/ \E name \in ProjectNames : InitSdlcCLI(name, FALSE)
              \/ \E inp \in GateSessions : main_ctx # NoCtx /\ ProjectStep(inp)
              \/ \E kind \in {"absent", "corrupt"} : DamageState(kind)]_vars

\* an init_sdlc.py process ran from its start to its end
InitProcess == pc = "idle" /\ pc' = "idle" /\ runs' = runs + 1

\* C22: initialization without --force ends with exit code 1 exactly when a state
\* document exists, and then leaves the document and the checklists as they were;
\* when no state document exists it writes the fresh one
C22_InitFailsIffDocumentExists ==
    [][InitProcess =>
          /\ exit_code' = 1 <=> disk.kind # "absent"
          /\ disk.kind # "absent" => (disk' = disk /\ fs' = fs)
          /\ disk.kind = "absent" => (disk'.kind = "json" /\ FreshDocument(disk'.doc))]_vars

-----------------------------------------------------------------------------
(* init_sdlc.py --force *)

\* init_sdlc.py --force ran on a project that has a state document
ForceInit == pc = "idle" /\ pc' = "idle" /\ runs' = runs + 1 /\ exit_code' = 0 /\ disk.kind = "json"

Timeless(doc) == [doc EXCEPT !.created_at = Null, !.updated_at = Null]

-----------------------------------------------------------------------------
(* A state document that is not parseable, at the CLI entry points *)

\* between the processes state.json is deleted or damaged by hand, and
\* project_health.py is run
SpecCorrupt ==
    Init /\ [][\/ Next
               \/ \E kind \in {"absent", "corrupt"} : DamageState(kind)
               \/ ProjectHealthCLI]_vars

\* orchestrate.py or project_health.py starts on an unparseable state document
LoadsCorrupt ==
    /\ disk.kind = "corrupt"
    /\ \/ ProjectHealthCLI
       \/ \E dry \in BOOLEAN, sf \in StartFromArgs, name \in ProjectNames,
             inp \in HandlerInputs : StartRun(dry, sf, name, inp)

\* C24: a CLI entry point that loads an unparseable state document ends with a
\* non-zero exit code after reporting the corrupt state, not by an unhandled parse
\* exception; it leaves the document as it was and uses no state
C24_CorruptStateReported ==
    [][LoadsCorrupt =>
          /\ disk' = disk
          /\ fs' = fs
          /\ exit_code' # 0
          /\ pc' = "idle"
          /\ state' = NoState
          /\ "health" \in DOMAIN gate_out' => ~gate_out'.raised]_vars

-----------------------------------------------------------------------------
(* json.dump and json.load of the state document.  The text of state.json is *)
(* followed as the sequence of its JSON tokens: punctuation, strings (the ISO  *)
(* timestamps among them, kept as the clock values they stand for), true,      *)
(* false and null.                                                              *)

Tok(t, v) == [t |-> t, v |-> v]

json_dump_drops_note(st) ==
    LET Str(s) == <<Tok("string", s)>>
        Time(x) == IF x = Null THEN <<Tok("null", "")>> ELSE <<Tok("isostring", x)>>
        RECURSIVE Join(_)
        Join(parts) ==
            IF parts = <<>> THEN <<>>
            ELSE IF Len(parts) = 1 THEN parts[1]
            ELSE parts[1] \o <<Tok("punct", ",")>> \o Join(Tail(parts))
        Member(k, v) == <<Tok("string", k), Tok("punct", ":")>> \o v
        Object(members) == <<Tok("punct", "{")>> \o Join(members) \o <<Tok("punct", "}")>>
        Array(items) == <<Tok("punct", "[")>> \o Join(items) \o <<Tok("punct", "]")>>
        PhaseObject(r) ==
            Object(<<Member("status", Str(r.status)),
                     Member("started_at", Time(r.started_at)),
                     Member("completed_at", Time(r.completed_at)),
                     Member("gate_passed", <<Tok("bool", r.gate_passed)>>),
                     Member("notes", Array([i \in 1..(IF r.notes = <<>> THEN 0
                                                      ELSE Len(r.notes) - 1) |->
                                               Str(r.notes[i])]))>>)
    IN  Object(<<Member("project_name", Str(st.project_name)),
                 Member("created_at", Time(st.created_at)),
                 Member("updated_at", Time(st.updated_at)),
                 Member("current_phase", Str(st.current_phase)),
                 Member("phases",
                        Object([i \in 1..Len(PHASE_ORDER) |->
                                   Member(PHASE_ORDER[i],
                                          PhaseObject(st.phases[PHASE_ORDER[i]]))]))>>)

\* json.dump(state, f, indent=2): the keys in the order of the dict, None as null
json_dump(st) ==
    LET Str(s) == <<Tok("string", s)>>
        Time(x) == IF x = Null THEN <<Tok("null", "")>> ELSE <<Tok("isostring", x)>>
        RECURSIVE Join(_)
        Join(parts) ==
            IF parts = <<>> THEN <<>>
            ELSE IF Len(parts) = 1 THEN parts[1]
            ELSE parts[1] \o <<Tok("punct", ",")>> \o Join(Tail(parts))
        Member(k, v) == <<Tok("string", k), Tok("punct", ":")>> \o v
        Object(members) == <<Tok("punct", "{")>> \o Join(members) \o <<Tok("punct", "}")>>
        Array(items) == <<Tok("punct", "[")>> \o Join(items) \o <<Tok("punct", "]")>>
        PhaseObject(r) ==
            Object(<<Member("status", Str(r.status)),
                     Member("started_at", Time(r.started_at)),
                     Member("completed_at", Time(r.completed_at)),
                     Member("gate_passed", <<Tok("bool", r.gate_passed)>>),
                     Member("notes", Array([i \in 1..Len(r.notes) |-> Str(r.notes[i])]))>>)
    IN  Object(<<Member("project_name", Str(st.project_name)),
                 Member("created_at", Time(st.created_at)),
                 Member("updated_at", Time(st.updated_at)),
                 Member("current_phase", Str(st.current_phase)),
                 Member("phases",
                        Object([i \in 1..Len(PHASE_ORDER) |->
                                   Member(PHASE_ORDER[i],
                                          PhaseObject(st.phases[PHASE_ORDER[i]]))]))>>)

\* json.load(f): objects become dicts, arrays lists, null None
json_load(toks) ==
    LET Is(i, c) == toks[i].t = "punct" /\ toks[i].v = c
        Parsed(v, n) == [v |-> v, n |-> n]
        RECURSIVE Value(_), Members(_, _), Elements(_, _)
        AfterMember(key, val, acc) ==
            IF Is(val.n, ",") THEN Members(val.n + 1, acc @@ (key :> val.v))
            ELSE Parsed(acc @@ (key :> val.v), val.n + 1)
        AfterElement(val, acc) ==
            IF Is(val.n, ",") THEN Elements(val.n + 1, Append(acc, val.v))
            ELSE Parsed(Append(acc, val.v), val.n + 1)
        Value(i) ==
            CASE Is(i, "{") -> IF Is(i + 1, "}") THEN Parsed(<<>>, i + 2)
                               ELSE Members(i + 1, <<>>)
              [] Is(i, "[") -> IF Is(i + 1, "]") THEN Parsed(<<>>, i + 2)
                               ELSE Elements(i + 1, <<>>)
              [] toks[i].t = "null" -> Parsed(Null, i + 1)
              [] OTHER -> Parsed(toks[i].v, i + 1)
        Members(i, acc) == AfterMember(toks[i].v, Value(i + 2), acc)
        Elements(i, acc) == AfterElement(Value(i), acc)
    IN  Value(1).v

\* save_state(project_dir, state) and, right after it, state = load_state(project_dir),
\* at any point of a walk that is not a dry run
SaveThenLoad ==
    /\ pc # "idle"
    /\ ~dry_run
    /\ "roundtrip" \notin DOMAIN gate_out
    /\ disk' = save_state(disk, state, FALSE)
    /\ state' = json_load(json_dump(Stamped(state, FALSE)))
    /\ gate_out' = ("roundtrip" :> pc) @@ gate_out
    /\ UNCHANGED <<fs, pc, idx, run_vars, gate_passed, action, main_ctx, exit_code,
                   visited, attempts, runs, jumped>>

SpecRoundTrip == Init /\ [][Next \/ SaveThenLoad]_vars

\* C25: a save that is not a dry run, followed at once by a load, returns the saved
\* state in every field except updated_at, and the save sets updated_at to the time
\* of the save
C25_SaveLoadRoundTrip ==
    [][("roundtrip" \in DOMAIN gate_out' /\ "roundtrip" \notin DOMAIN gate_out) =>
          /\ SameDocument(state', state)
          /\ state'.updated_at = runs + 1
          /\ disk' = Json(state')]_vars

\* in the second process the state of the first, with its notes and its completed
\* phase, was saved and loaded before the walk went on: updated_at is of now
C25_Witness ==
    /\ "roundtrip" \in DOMAIN gate_out
    /\ gate_out.roundtrip = "loop"
    /\ pc = "loop"
    /\ runs = 1
    /\ state.updated_at = 2
    /\ state.created_at = 1
    /\ state.phases["requirements"].status = "completed"
    /\ Len(state.phases["requirements"].notes) >= 1
    /\ state.phases["development"].started_at = Null

-----------------------------------------------------------------------------
(* The notes of a phase *)

NoDuplicates(s) == \A i, j \in 1..Len(s) : s[i] = s[j] => i = j

IsPrefix(a, b) == Len(a) <= Len(b) /\ SubSeq(b, 1, Len(a)) = a

\* add_note on the notes of phase p of st: a note already there changes nothing, a
\* new note goes to the end
AddNoteAppendsOnce(st, p) ==
    \A note \in {st.phases[p].notes[i] : i \in 1..Len(st.phases[p].notes)}
                    \cup {"Reviewed by hand"} :
        LET after == add_note(st, p, note)
        IN  /\ NoDuplicates(after.phases[p].notes)
            /\ InSeq(note, st.phases[p].notes) => after = st
            /\ ~InSeq(note, st.phases[p].notes) =>
                  after.phases[p].notes = Append(st.phases[p].notes, note)
            /\ \A q \in Phases \ {p} : after.phases[q].notes = st.phases[q].notes

\* C26: no notes list ever holds the same string twice; add_note leaves the list as
\* it is for a note already there and appends a new one at the end; the orchestrator
\* only ever extends the notes of the phase it is handling, in memory and on disk
C26_NotesAreAnOrderedSet ==
    [][/\ (pc # "idle" /\ pc' # "idle") =>
              \A p \in Phases :
                  /\ NoDuplicates(state'.phases[p].notes)
                  /\ AddNoteAppendsOnce(state', p)
                  /\ pc # "loop" \/ idx <= Len(PHASE_ORDER)
                  /\ IF p = PHASE_ORDER[idx]
                     THEN IsPrefix(state.phases[p].notes, state'.phases[p].notes)
                     ELSE state'.phases[p].notes = state.phases[p].notes
       /\ (OrchestratorStep /\ disk.kind = "json" /\ disk'.kind = "json") =>
              \A p \in Phases :
                  /\ NoDuplicates(disk'.doc.phases[p].notes)
                  /\ IsPrefix(disk.doc.phases[p].notes, disk'.doc.phases[p].notes)]_vars

\* in a second process the cicd handler has run with yes at every prompt: its three
\* notes stand once each, in the order they were added, and the note of requirements
\* is where it was
C26_Witness ==
    /\ pc = "gate"
    /\ runs = 1
    /\ ~dry_run
    /\ session.yn = "y"
    /\ PHASE_ORDER[idx] = "cicd"
    /\ state.phases["cicd"].notes =
          <<"Build step defined in CI pipeline", "Test step configured in CI pipeline",
            "Pipeline verified end-to-end">>
    /\ state.phases["requirements"].notes =
          <<"Stakeholder sign-off recorded for requirements">>
    /\ disk = Json(state)

-----------------------------------------------------------------------------
(* The note-contains checker *)

\* the keywords of the check_state_note criteria of the registry, and one in capitals
NoteKeywords ==
    {GATE_CRITERIA[p][k].args[2] :
        <<p, k>> \in {x \in Phases \X (1..5) :
                         /\ x[2] <= Len(GATE_CRITERIA[x[1]])
                         /\ GATE_CRITERIA[x[1]][x[2]].checker = "check_state_note"}}
        \cup {"Sign-Off"}

\* keyword occurs in note at some offset, letter by letter without regard to case
OccursIn(keyword, note) ==
    \E k \in 0..(Len(note) - Len(keyword)) :
        \A j \in 1..Len(keyword) :
            Lower(SubSeq(note, k + j, k + j)) = Lower(SubSeq(keyword, j, j))

\* C27: check_state_note(phase, keyword) is true exactly when a state document
\* exists and some note of that phase contains the keyword, letter case set aside;
\* the sign-off note of requirements passes the requirements criterion and leaves
\* the sign-off criterion of uat failing
C27_NoteContains ==
    /\ \A p \in Phases : \A keyword \in NoteKeywords :
          check_state_note(ProjectDir(fs, disk), p, keyword)
              <=> /\ disk.kind = "json"
                  /\ \E i \in 1..Len(disk.doc.phases[p].notes) :
                        OccursIn(keyword, disk.doc.phases[p].notes[i])
    /\ (/\ disk.kind = "json"
        /\ InSeq("Stakeholder sign-off recorded for requirements",
                 disk.doc.phases["requirements"].notes)
        /\ disk.doc.phases["uat"].notes = <<>>) =>
          /\ InSeq("Stakeholder sign-off recorded",
                   validate_phase("requirements", ProjectDir(fs, disk)).passed)
          /\ InSeq("Stakeholder sign-off obtained",
                   validate_phase("uat", ProjectDir(fs, disk)).failed)

\* uat was validated while only requirements holds a sign-off note, and testing
\* holds its note on coverage, written with a capital
C27_Witness ==
    /\ FromValidatePhase
    /\ gate_out.phases = <<"uat">>
    /\ InSeq("Stakeholder sign-off obtained", gate_out.results[1].failed)
    /\ disk.kind = "json"
    /\ InSeq("Stakeholder sign-off recorded for requirements",
             disk.doc.phases["requirements"].notes)
    /\ InSeq("Coverage meets threshold of 80%", disk.doc.phases["testing"].notes)
    /\ disk.doc.phases["uat"].notes = <<>>

-----------------------------------------------------------------------------
(* Collaborator scripts that exit non-zero *)

\* every generator and validator script the handlers started has exited non-zero
CollaboratorsFailed == session # NoSession /\ ~session.ok

\* C28: when the collaborator scripts of a handler exit non-zero, the handler
\* leaves neither a note nor an artifact on their behalf: after the cicd handler
\* the criteria that stand for the generated pipeline still fail, and after the
\* deployment handler the criterion for the generated runbook still fails
C28_FailedStepFabricatesNothing ==
    (CollaboratorsFailed /\ disk.kind = "json") =>
        /\ idx >= PhaseIndex("cicd") =>
              \A d \in {"CI pipeline config exists", "Build step defined",
                        "Test step in pipeline"} :
                  ~InSeq(d, validate_phase("cicd", ProjectDir(fs, disk)).passed)
        /\ idx >= PhaseIndex("deployment") =>
              ~InSeq("Deployment runbook exists",
                     validate_phase("deployment", ProjectDir(fs, disk)).passed)

-----------------------------------------------------------------------------
(* The walk with collaborator scripts that exit non-zero *)

\* yes at every prompt while every script fails
FailingInputs == {Inp("y", FALSE, "")}

SpecFailing ==
    Init /\ [][\/ \E name \in ProjectNames, force \in BOOLEAN : InitSdlcCLI(name, force)
               \/ \E dry \in BOOLEAN, sf \in StartFromArgs, name \in ProjectNames,
                     inp \in FailingInputs : StartRun(dry, sf, name, inp)
               \/ Finish
               \/ SkipCompleted
               \/ BeginPhase
               \/ RunHandler
               \/ RunGate
               \/ GatePassed
               \/ \E raw \in GateAnswers : GateBlocked(raw)
               \/ Quit
               \/ Skip
               \/ Fix
               \/ Retry
               \/ Advance]_vars

\* C29: with collaborators that exit non-zero the handler still runs to its end, the
\* state is saved and the gate check follows; the check's verdict comes from the
\* project directory alone, and a phase is completed only after a passed check or
\* the skip chosen at the prompt
C29_FailedStepDoesNotAbort ==
    [][/\ pc = "handler" =>
              /\ pc' = "gate"
              /\ exit_code' = exit_code
              /\ ~dry_run => disk' = Json(state')
       /\ pc = "gate" =>
              /\ pc' = "gated"
              /\ gate_passed' <=>
                    \/ dry_run
                    \/ LET v == validate_phase(Phase, ProjectDir(fs, disk))
                       IN  ~v.raised /\ v.failed = <<>>
       /\ \A p \in Phases :
              (/\ pc # "idle" /\ pc' # "idle"
               /\ state.phases[p].status # "completed"
               /\ state'.phases[p].status = "completed") =>
                  \/ pc = "gated" /\ gate_passed
                  \/ pc = "chosen" /\ action = "skip"]_vars

\* the cicd handler ran to its last step although generate_pipeline.py failed, the
\* state is saved and the gate check has given its verdict
C29_Witness ==
    /\ pc = "gated"
    /\ ~session.ok
    /\ ~dry_run
    /\ PHASE_ORDER[idx] = "cicd"
    /\ ~gate_passed
    /\ ~FsExists(fs, ".github/workflows/ci.yml")
    /\ InSeq("Pipeline verified end-to-end", state.phases["cicd"].notes)
    /\ disk = Json(state)

-----------------------------------------------------------------------------
(* The skip override in the persisted record *)

\* the operator chose skip at the gate prompt and the phase was completed
SkipOverride == pc = "chosen" /\ action = "skip" /\ pc' = "advance" /\ ~dry_run

\* C30: the record that a phase completed by skip leaves in the state document
\* differs from the record the same phase would have after a passed gate check
\* (completed, completed_at set, gate_passed true, the notes as they were)
C30_SkipIsDistinguishable ==
    [][SkipOverride =>
          /\ disk'.kind = "json"
          /\ disk'.doc.phases[Phase] #
                [state.phases[Phase] EXCEPT !.status = "completed",
                                            !.completed_at = runs + 1,
                                            !.gate_passed = TRUE]]_vars

-----------------------------------------------------------------------------
(* The gate validator on a project directory without a state document *)

\* C31: without a state document the gate_validator.py process ends non-zero with
\* a not-found error of its own, and its report is not the one it gives for a state
\* document in which every phase is pending and no note is recorded
C31_MissingStateIsReported ==
    (FromGateCLI /\ disk.kind = "absent") =>
        /\ exit_code # 0
        /\ gate_out.results #
              AllResults(gate_out.phases, ProjectDir(fs, Json(create_state("Demo"))))

-----------------------------------------------------------------------------
(* The file-exists and dir-exists checkers *)

\* the relative paths that exist below the project directory, and one that does not
ProbedPaths == {e.path : e \in Entries(ProjectDir(fs, disk))} \cup {"docs/absent.md"}

\* C32: check_file is true exactly for a path that exists as a regular file (false
\* for a directory at that path), check_dir exactly for a path that exists as a
\* directory, and both are false for an absent path
C32_FileAndDirCheckers ==
    \A path \in ProbedPaths :
        /\ check_file(ProjectDir(fs, disk), path)
              <=> \E e \in Entries(ProjectDir(fs, disk)) : e.path = path /\ e.kind = "file"
        /\ check_dir(ProjectDir(fs, disk), path)
              <=> \E e \in Entries(ProjectDir(fs, disk)) : e.path = path /\ e.kind = "dir"

-----------------------------------------------------------------------------
(* The order of the gate report *)

\* print_gate_result(phase, passed, failed): the criterion lines it prints, in the
\* order printed: "for item in passed" first, then "for item in failed"
print_gate_result(phase, passed, failed) ==
    [i \in 1..Len(passed) |-> [mark |-> "passed", item |-> passed[i]]]
        \o [i \in 1..Len(failed) |-> [mark |-> "failed", item |-> failed[i]]]

\* C33: a gate_validator.py process lists the criteria of a phase in the order in
\* which the registry declares them, so a failing criterion declared before a
\* passing one is shown before it
C33_ReportedInDeclaredOrder ==
    (FromGateCLI /\ ~gate_out.raised) =>
        \A i \in 1..Len(gate_out.phases) :
            LET lines == print_gate_result(gate_out.phases[i], gate_out.results[i].passed,
                                           gate_out.results[i].failed)
            IN  [k \in 1..Len(lines) |-> lines[k].item]
                    = Descriptions(Criteria(gate_out.phases[i]))

-----------------------------------------------------------------------------
(* The shape of the persisted state *)

\* C34: every state document written by init_sdlc.py or by the orchestrator has
\* exactly the seven known phase ids as the keys of phases, and its current_phase
\* is one of the seven
C34_SevenKnownPhases ==
    disk.kind = "json" =>
        /\ DOMAIN disk.doc.phases = Phases
        /\ Cardinality(DOMAIN disk.doc.phases) = 7
        /\ disk.doc.current_phase \in Phases

\* the orchestrator has walked to the last phase and completed all seven
C34_Witness ==
    /\ disk.kind = "json"
    /\ disk.doc.current_phase = "monitoring"
    /\ \A p \in Phases : disk.doc.phases[p].status = "completed"

-----------------------------------------------------------------------------
(* The end of the walk *)

\* the for loop of main() is exhausted and "SDLC Complete!" is printed
ReportsComplete == pc = "loop" /\ idx > Len(PHASE_ORDER) /\ pc' = "idle"

\* C36: when a run ends with "SDLC Complete! All 7 phases have been completed
\* successfully", all seven phases are completed with gate_passed in its state,
\* whatever the starting state and the choice of --start-from
C36_CompleteMeansAllCompleted ==
    [][ReportsComplete =>
          \A p \in Phases :
              state.phases[p].status = "completed" /\ state.phases[p].gate_passed]_vars

-----------------------------------------------------------------------------
(* The walk without --start-from *)

\* C37: from a freshly initialized state, as long as no orchestrator run has used
\* --start-from, every state document on disk has each phase before current_phase
\* completed with gate_passed, each phase after current_phase pending, and no
\* phase in_progress other than current_phase
C37_LinearProgress ==
    (~jumped /\ disk.kind = "json") =>
        LET doc == disk.doc
            cur == PhaseIndex(doc.current_phase)
        IN  \A i \in 1..Len(PHASE_ORDER) :
                /\ i < cur => /\ doc.phases[PHASE_ORDER[i]].status = "completed"
                              /\ doc.phases[PHASE_ORDER[i]].gate_passed
                /\ i > cur => doc.phases[PHASE_ORDER[i]].status = "pending"
                /\ doc.phases[PHASE_ORDER[i]].status = "in_progress" => i = cur

\* two phases are behind the run, the third is in progress and the rest are pending
C37_Witness ==
    /\ ~jumped
    /\ ~dry_run
    /\ pc = "gated"
    /\ disk.kind = "json"
    /\ disk.doc.current_phase = "cicd"
    /\ disk.doc.phases["cicd"].status = "in_progress"
    /\ disk.doc.phases["development"].status = "completed"
    /\ disk.doc.phases["testing"].status = "pending"

-----------------------------------------------------------------------------
(* The handler's notes and the gate check *)

\* the first gate check of the phase in a run that is not a dry run
FirstGateCheck == pc = "gate" /\ pc' = "gated" /\ ~dry_run /\ attempts = 0

\* C38: in a run that is not a dry run, when the first gate check of a phase is
\* made, every note the handler recorded is in the state document on disk, and the
\* verdict of the gate_validator.py process is the one for the notes in memory
C38_NotesSavedBeforeGate ==
    [][FirstGateCheck =>
          /\ disk.kind = "json"
          /\ \A p \in Phases : disk.doc.phases[p].notes = state.phases[p].notes
          /\ gate_out'.results = AllResults(<<Phase>>, ProjectDir(fs, Json(state)))]_vars

\* the first gate check of a phase has found a note criterion met by a note that
\* the handler recorded in this run
C38_Witness ==
    /\ pc = "gated"
    /\ ~dry_run
    /\ attempts = 1
    /\ state.phases[Phase].notes # <<>>
    /\ \E k \in 1..Len(Criteria(Phase)) :
          /\ Criteria(Phase)[k].checker = "check_state_note"
          /\ InSeq(Criteria(Phase)[k].description, gate_out.results[1].passed)

-----------------------------------------------------------------------------
(* Timestamps and status *)

\* C39: in every state document on disk, a pending phase has neither started_at
\* nor completed_at, a phase in_progress has started_at and no completed_at, and a
\* completed phase has both
C39_TimestampsFollowStatus ==
    disk.kind = "json" =>
        \A p \in Phases :
            LET rec == disk.doc.phases[p]
            IN  /\ rec.status \in {"pending", "in_progress", "completed"}
                /\ rec.status = "pending" =>
                      rec.started_at = Null /\ rec.completed_at = Null
                /\ rec.status = "in_progress" =>
                      rec.started_at # Null /\ rec.completed_at = Null
                /\ rec.status = "completed" =>
                      rec.started_at # Null /\ rec.completed_at # Null

\* one phase of each status is on disk, the in_progress one started in a later
\* run than the completed one
C39_Witness ==
    /\ disk.kind = "json"
    /\ disk.doc.phases["requirements"].status = "completed"
    /\ disk.doc.phases["development"].started_at
          > disk.doc.phases["requirements"].completed_at
    /\ disk.doc.phases["development"].status = "in_progress"
    /\ disk.doc.phases["cicd"].status = "pending"

-----------------------------------------------------------------------------
(* project_health.py: checklist completion and the health score *)

\* where content holds one of the five-character strings of alts
MatchesAt(content, alts) ==
    {i \in 1..(Len(content) - 4) : SubSeq(content, i, i + 4) \in alts}

\* len(re.findall(pattern, content)) for a pattern that matches exactly the strings
\* of alts, each "- [" with one more character and "]": no two matches overlap
CountMatches(content, alts) == Cardinality(MatchesAt(content, alts))

\* parse_checklist(path): (0, 0) without the file; total counts r"- \[[ x]\]",
\* checked counts r"- \[x\]" under re.IGNORECASE
parse_checklist(pd, path) ==
    IF ~Exists(pd, path) THEN [checked |-> 0, total |-> 0]
    ELSE LET content == (CHOOSE e \in Entries(pd) : e.path = path).text
         IN  [checked |-> CountMatches(content, {"- [x]", "- [X]"}),
              total |-> CountMatches(content, {"- [ ]", "- [x]"})]

\* a fraction num / den, den > 0
Frac(num, den) == [num |-> num, den |-> den]

\* phase_score = (checklist_pct * 0.7 + gate_passed * 0.3) * 100, raised to 90 for a
\* completed phase, as an exact fraction over the checklist's total
PhaseScore(rec, c) ==
    LET den == IF c.total > 0 THEN c.total ELSE 1
        num == (IF c.total > 0 THEN 70 * c.checked ELSE 0)
                  + (IF rec.gate_passed THEN 30 * den ELSE 0)
    IN  IF rec.status = "completed" /\ num < 90 * den THEN Frac(90 * den, den)
        ELSE Frac(num, den)

AddFrac(a, b) == Frac(a.num * b.den + b.num * a.den, a.den * b.den)

RECURSIVE WeightedScore(_, _, _, _)
\* weighted_score after the phases from the i-th on, with weight 1.0 each
WeightedScore(st, pd, i, acc) ==
    IF i > Len(PHASE_ORDER) THEN acc
    ELSE WeightedScore(st, pd, i + 1,
             AddFrac(acc, PhaseScore(st.phases[PHASE_ORDER[i]],
                                     parse_checklist(pd, ChecklistPath(PHASE_ORDER[i])))))

\* calculate_health_score(state, project_dir): weighted_score / total_weight
calculate_health_score(st, pd) ==
    LET weighted_score == WeightedScore(st, pd, 1, Frac(0, 1))
    IN  Frac(weighted_score.num, weighted_score.den * Len(PHASE_ORDER))

\* python project_health.py: the progress column of every phase and the overall
\* health score, for a project with a state document
ProjectHealthReport ==
    /\ pc = "idle"
    /\ disk.kind = "json"
    /\ "health_score" \notin DOMAIN gate_out
    /\ GateExit([health |-> TRUE, raised |-> FALSE, exit_code |-> 0,
                 progress |-> [p \in Phases |->
                                  parse_checklist(ProjectDir(fs, disk), ChecklistPath(p))],
                 health_score |-> calculate_health_score(disk.doc, ProjectDir(fs, disk))])

\* where the first "- [ ]" of content starts; 0 when there is none
FirstUnticked(content) ==
    LET open == MatchesAt(content, {"- [ ]"})
    IN  IF open = {} THEN 0 ELSE CHOOSE i \in open : \A j \in open : i <= j

\* the checklist of phase with the "- [ ]" that starts at i ticked
TickAt(content, i, phase, mark) ==
    /\ i # 0
    /\ fs' = WriteText(fs, ChecklistPath(phase),
                       SubSeq(content, 1, i + 2) \o mark
                           \o SubSeq(content, i + 4, Len(content)))

\* the checklists the operator works on
TickedPhases == {"requirements"}

\* the operator ticks the first open item of a phase checklist in an editor, with a
\* small or a capital x
TickItem(phase, mark) ==
    /\ pc = "idle"
    /\ FsExists(fs, ChecklistPath(phase))
    /\ LET content == (CHOOSE e \in fs : e.path = ChecklistPath(phase)).text
       IN  /\ CountMatches(content, {"- [x]", "- [X]"}) < MaxTicks
           /\ TickAt(content, FirstUnticked(content), phase, mark)
    /\ gate_out' = NoGateOut
    /\ UNCHANGED <<disk, pc, state, idx, run_vars, gate_passed, action, main_ctx,
                   exit_code, visited, attempts, runs, jumped>>

SpecHealth ==
    Init /\ [][\/ \E name \in ProjectNames : InitSdlcCLI(name, FALSE)
               \/ \E name \in ProjectNames : StartRun(FALSE, "", name, Inp("y", TRUE, ""))
               \/ Finish
               \/ SkipCompleted
               \/ BeginPhase
               \/ RunHandler
               \/ RunGate
               \/ GatePassed
               \/ \E raw \in GateAnswers : GateBlocked(raw)
               \/ Quit
               \/ Skip
               \/ Fix
               \/ Retry
               \/ Advance
               \/ \E phase \in TickedPhases, mark \in {"x", "X"} : TickItem(phase, mark)
               \/ ProjectHealthReport]_vars

\* C35: for every checklist content the checked items counted do not exceed the
\* total counted, and the health score lies between 0 and 100 inclusive
C35_ScoreWithinRange ==
    "health_score" \in DOMAIN gate_out =>
        /\ \A p \in Phases : gate_out.progress[p].checked <= gate_out.progress[p].total
        /\ 0 <= gate_out.health_score.num
        /\ gate_out.health_score.num <= 100 * gate_out.health_score.den

====
